---- MODULE Spec2Model ----
(***************************************************************************)
(* The ledger and debt-netting engine of deep-split-be: the GraphQL        *)
(* mutations of src/src/schema/mutation.rs over the split_transactions,    *)
(* expenses, groups and group_memberships tables, each request modelled as *)
(* a process that steps through its database calls.                        *)
(***************************************************************************)
EXTENDS Integers, Sequences, FiniteSets, Bags, TLC

\* ------------------------------------------------------------------ bounds
MaxRows == 2        \* a context takes a new request while the ledger is shorter

\* ---------------------------------------------------------------- universe
Users == {"u1", "u2", "u3"}
GroupIds == {1, 2, 3}
Currencies == {"USD", "JPY"}
Procs == {"p1", "p2"}

\* The users that send requests (AuthTypes::AuthorizedUser).
Callers == {"u1", "u2"}

Other(user) == IF user = "u1" THEN "u2" ELSE "u1"

NoUser == "null"
NoCurrency == "null"
NoGroup == 0
NoId == 0

\* ----------------------------------------------------------------- helpers
RECURSIVE SumFn(_, _)
SumFn(f, S) ==
    IF S = {} THEN 0
    ELSE LET x == CHOOSE y \in S : TRUE IN f[x] + SumFn(f, S \ {x})

RECURSIVE MaxOf(_)
MaxOf(S) ==
    IF S = {} THEN 0
    ELSE LET x == CHOOSE y \in S : TRUE
             m == MaxOf(S \ {x})
         IN IF x > m THEN x ELSE m

Range(s) == {s[i] : i \in DOMAIN s}

Abs(n) == IF n < 0 THEN -n ELSE n

Min(a, b) == IF a < b THEN a ELSE b

\* All orderings of a finite set, as sequences without repetition.
RECURSIVE Orderings(_)
Orderings(S) ==
    IF S = {} THEN {<<>>}
    ELSE UNION {{<<x>> \o s : s \in Orderings(S \ {x})} : x \in S}

RECURSIVE Flatten(_)
Flatten(ss) == IF ss = <<>> THEN <<>> ELSE Head(ss) \o Flatten(Tail(ss))

\* ------------------------------------------------------------------- state
VARIABLES
    ledger,      \* committed rows of split_transactions, in insertion order
    expenses,    \* committed rows of expenses, in insertion order
    groupName,   \* groups table: "absent", "named" or "unnamed" (name IS NULL)
    members,     \* group_memberships: group id -> set of user ids
    proc,        \* the request each context is serving and its locals
    userTable,   \* users table by e-mail: "absent", "invited" (name IS NULL) or "named"
    hash_map,    \* OtpMap.hash_map: e-mail -> (instant, passcode)
    heap,        \* OtpMap.heap: the (instant, key) entries, a bag
    now,         \* Instant::now(), in ticks
    issued,      \* the tokens handed out: <<e-mail, "signup" or "access">>
    spent,       \* history: the passcode verify_otp last accepted for an e-mail
    lastAccess   \* history: when a key was last inserted or successfully got

vars == <<ledger, expenses, groupName, members, proc, userTable, hash_map, heap, now, issued, spent, lastAccess>>

\* The sign-in state: requests that book, pay or net leave it alone.
authVars == <<userTable, hash_map, heap, now, issued, spent, lastAccess>>

\* A split_transactions row as Group::settle_for_group inserts it.
settle_for_group(group_id, from_user, to_user, amount, creator_id, part_transaction, transaction_type, with_group_id, currency_id) ==
    [expense_id |-> NoId, group_id |-> group_id, amount |-> amount,
     currency_id |-> currency_id, from_user |-> from_user, to_user |-> to_user,
     transaction_type |-> transaction_type, part_transaction |-> part_transaction,
     created_by |-> creator_id, with_group_id |-> with_group_id]

\* An ExpenseSplit row with the creator as the ower.
ExpenseSplitRowSwapped(expense_id, split, user_id, group_id, currency_id) ==
    [expense_id |-> expense_id, group_id |-> group_id, amount |-> split.amount,
     currency_id |-> currency_id, from_user |-> user_id, to_user |-> split.user_id,
     transaction_type |-> "ExpenseSplit", part_transaction |-> NoId,
     created_by |-> user_id, with_group_id |-> NoGroup]

\* The ExpenseSplit row Expense::new_expense inserts for one share.
ExpenseSplitRow(expense_id, split, user_id, group_id, currency_id) ==
    [expense_id |-> expense_id, group_id |-> group_id, amount |-> split.amount,
     currency_id |-> currency_id, from_user |-> split.user_id, to_user |-> user_id,
     transaction_type |-> "ExpenseSplit", part_transaction |-> NoId,
     created_by |-> user_id, with_group_id |-> NoGroup]

\* The expenses row Expense::new_expense inserts.
ExpenseRow(id, user_id, group_id, amount, currency_id) ==
    [id |-> id, created_by |-> user_id, group_id |-> group_id, amount |-> amount,
     currency_id |-> currency_id]

\* Group::get_users: the members of a group.
get_users(group_id) == members[group_id]

\* Group::get_from_id succeeds only for a stored group.
GroupExists(group_id) == group_id \in GroupIds /\ groupName[group_id] # "absent"

\* ------------------------------------------------------- balance aggregator
\* The inner SELECT of User::get_owes_with_group: one net per
\* (from_user, to_user, group_id, currency_id) of the rows between the two
\* users, $1 = from_user, $2 = to_user.
OwesInnerKeys(to_user, from_user, rows) ==
    {<<rows[i].from_user, rows[i].to_user, rows[i].group_id, rows[i].currency_id>> :
        i \in {j \in DOMAIN rows :
                 \/ rows[j].from_user = from_user /\ rows[j].to_user = to_user
                 \/ rows[j].from_user = to_user /\ rows[j].to_user = from_user}}

\* The CASE with its two bind parameters exchanged.
net_owed_amount_swapped(key, from_user, rows) ==
    SumFn([i \in DOMAIN rows |->
             IF <<rows[i].from_user, rows[i].to_user, rows[i].group_id,
                  rows[i].currency_id>> = key
             THEN (IF rows[i].to_user = from_user THEN rows[i].amount
                   ELSE -rows[i].amount)
             ELSE 0],
          DOMAIN rows)

net_owed_amount(key, from_user, rows) ==
    SumFn([i \in DOMAIN rows |->
             IF <<rows[i].from_user, rows[i].to_user, rows[i].group_id,
                  rows[i].currency_id>> = key
             THEN (IF rows[i].from_user = from_user THEN rows[i].amount
                   ELSE -rows[i].amount)
             ELSE 0],
          DOMAIN rows)

\* The outer SELECT: SUM(net_owed_amount) per (group_id, currency_id); the
\* result rows as OwedInGroup values, in no particular order.
get_owes_with_group(to_user, from_user, rows) ==
    LET inner == OwesInnerKeys(to_user, from_user, rows)
        outer == {<<k[3], k[4]>> : k \in inner}
    IN {[group_id |-> gc[1], currency_id |-> gc[2],
         amount |-> SumFn([k \in inner |->
                             IF k[3] = gc[1] /\ k[4] = gc[2]
                             THEN net_owed_amount(k, from_user, rows) ELSE 0],
                          inner)] : gc \in outer}

\* The amount get_owes_with_group reports for (group, currency); 0 when the
\* result has no such entry.
OwedAmount(to_user, from_user, g, c, rows) ==
    LET hit == {o \in get_owes_with_group(to_user, from_user, rows) :
                  o.group_id = g /\ o.currency_id = c}
    IN IF hit = {} THEN 0 ELSE (CHOOSE o \in hit : TRUE).amount

\* ------------------------------------------------------------ fresh uuids
AllRows ==
    Range(ledger) \cup UNION {Range(proc[p].tx) \cup Range(proc[p].plan)
                              \cup Range(proc[p].out) : p \in Procs}

\* uuid::Uuid::new_v4() for a part_transaction id: a value no row and no
\* request holds.
FreshPartId ==
    1 + MaxOf({r.part_transaction : r \in AllRows} \cup {proc[p].part_id : p \in Procs})

\* uuid::Uuid::new_v4() for an expense id.
FreshExpenseId ==
    1 + MaxOf({e.id : e \in Range(expenses)}
              \cup UNION {{e.id : e \in Range(proc[p].txe)} : p \in Procs}
              \cup {proc[p].expense_id : p \in Procs})

\* ------------------------------------------------------------ sign-in state
\* The fixed guest account of verify_otp and its passcode.
Guest == "guest@billdivide.app"
GuestOtp == "123456"

\* The e-mail addresses; a user's id stands for their address as well.
Emails == Users \cup {Guest}

\* No instant: the key was never accessed.
Never == -1

\* The sign-in state of a database in which every user has signed up and
\* no passcode is out.
AllSignedUp ==
    /\ userTable = [e \in Emails |-> IF e \in Users THEN "named" ELSE "absent"]
    /\ hash_map = <<>>
    /\ heap = EmptyBag
    /\ now = 0
    /\ issued = {}
    /\ spent = [e \in Emails |-> "none"]
    /\ lastAccess = [e \in Emails |-> Never]

\* ------------------------------------------------------------ request state
IdleProc ==
    [op |-> "none", pc |-> "idle", result |-> "none", self |-> NoUser,
     with_user |-> NoUser, group_id |-> NoGroup, amount |-> 0,
     currency_id |-> NoCurrency, to_currency_id |-> NoCurrency,
     splits |-> <<>>, submitted |-> <<>>,
     tx |-> <<>>, txe |-> <<>>, plan |-> <<>>,
     remaining_amount |-> 0, part_id |-> NoId, expense_id |-> NoId,
     netq |-> <<>>, out |-> <<>>, rows0 |-> 0, expenses0 |-> 0,
     to_add |-> <<>>, notify |-> "none", image |-> "none",
     groups0 |-> 0, members0 |-> 0,
     email |-> "none", otp |-> "none", fresh |-> FALSE]

Init ==
    /\ ledger = <<>>
    /\ expenses = <<>>
    /\ groupName = [g \in GroupIds |-> IF g = 3 THEN "absent" ELSE "named"]
    /\ members = [g \in GroupIds |->
                    IF g = 1 THEN {"u1", "u2"}
                    ELSE IF g = 2 THEN {"u1", "u2", "u3"} ELSE {}]
    /\ proc = [p \in Procs |-> IdleProc]
    /\ AllSignedUp

\* uuid::Uuid::new_v4() for a group: an id no group has; the first unused
\* one, NoGroup when all are in use.
FreshGroupId ==
    IF \A g \in GroupIds : groupName[g] # "absent" THEN NoGroup
    ELSE CHOOSE g \in GroupIds :
            /\ groupName[g] = "absent"
            /\ \A h \in GroupIds : groupName[h] = "absent" => g <= h

\* A context takes a new request when it is idle.
CanStart(p) == proc[p].pc = "idle" /\ Len(ledger) < MaxRows

\* A commit that first deletes the rows already booked in the groups it
\* writes to.
CommitRowsReplacing(rows, tx) ==
    SelectSeq(rows, LAMBDA r : \A i \in DOMAIN tx : r.group_id # tx[i].group_id) \o tx

\* transaction.commit(): the rows written through the transaction become
\* rows of the table.
CommitRows(rows, tx) == rows \o tx

\* Rows written through the pool instead of the transaction: they stay when
\* the transaction is dropped.
DropTxKeepsRows(rows, tx) == rows \o tx

\* A sqlx transaction dropped without commit (an early return through `?`)
\* rolls back: the table keeps none of its rows.
DropTx(rows, tx) == rows

\* What send_message_notification_with_retry came to for a request: "sent",
\* "failed" when a dispatch returned an error (it is logged), "skipped" when
\* no user to notify had a token.
NotifyOutcomes == {"sent", "failed", "skipped"}

\* The request record once it has returned `result`; tx and txe stay in it
\* as what its last transaction had written when it returned.
Returned(q, result, out) ==
    [q EXCEPT !.pc = "done", !.result = result, !.out = out, !.netq = <<>>]

\* The request returns `result`.
Return(p, result, out) == proc' = [proc EXCEPT ![p] = Returned(proc[p], result, out)]

\* The request record after a commit: the handler calls
\* simplify_cross_group for each user of `users` in turn and ignores its
\* result; with none it returns.
Netting(q, result, out, users) ==
    IF users = <<>> THEN Returned(q, result, out)
    ELSE [q EXCEPT !.pc = "net_read", !.result = result, !.out = out, !.tx = <<>>,
                   !.txe = <<>>, !.plan = <<>>, !.netq = users]

ThenNetting(p, result, out, users) ==
    proc' = [proc EXCEPT ![p] = Netting(proc[p], result, out, users)]

\* The number of rows of the groups table and of the group_memberships table.
GroupCount == Cardinality({g \in GroupIds : groupName[g] # "absent"})

MembershipCount == SumFn([g \in GroupIds |-> Cardinality(members[g])], GroupIds)

\* A new request of `op` by `user`, its arguments as given; rows0,
\* expenses0, groups0 and members0 record how many rows the tables had when
\* it arrived.
NewRequest(op, user, with_user, group_id, amount, currency_id, to_currency_id, submitted) ==
    [IdleProc EXCEPT !.op = op, !.pc = "done", !.self = user, !.with_user = with_user,
                     !.group_id = group_id, !.amount = amount,
                     !.currency_id = currency_id, !.to_currency_id = to_currency_id,
                     !.submitted = submitted, !.rows0 = Len(ledger),
                     !.expenses0 = Len(expenses), !.groups0 = GroupCount,
                     !.members0 = MembershipCount]

\* The response is sent; the context is free again.
Respond(p) ==
    /\ proc[p].pc = "done"
    /\ proc' = [proc EXCEPT ![p] = IdleProc]
    /\ UNCHANGED <<authVars, ledger, expenses, groupName, members>>

\* ------------------------------------------------------------------ inputs
\* The amounts a caller submits for an expense or a payment (any i64).
Amounts == {-1, 0, 1, 2}

\* One share of a submitted expense (SplitInput).
SplitInput == [user_id : Users, amount : {0, 1, 2}]

\* Every share list of up to two shares.
SplitInputs == UNION {[1..n -> SplitInput] : n \in 0..2}

\* Every add_expense call of a caller.
AllExpenseInputs ==
    [user : Callers, group_id : GroupIds, amount : {0, 2}, currency_id : Currencies,
     splits : SplitInputs]

\* The add_expense calls with one positive share.
OneShareExpenseInputs ==
    {in \in AllExpenseInputs :
        /\ in.amount = 2 /\ in.group_id \in {1, 2} /\ Len(in.splits) = 1
        /\ in.splits[1].amount > 0
        /\ in.splits[1].user_id # in.user
        /\ in.splits[1].user_id = "u3" => in.currency_id = "USD" /\ in.splits[1].amount = 1}

\* ------------------------------------------------------------- add_expense
\* The checks with the self-split test made on the positive shares only.
AddExpenseCheckSelfAfterFilter(user, group_id, amount, splits) ==
    LET filtered == SelectSeq(splits, LAMBDA f : f.amount > 0)
    IN IF \E i \in DOMAIN filtered : filtered[i].user_id = user
       THEN "SelfSplitNotAllowed"
       ELSE IF amount <= 0 THEN "InvalidAmount"
       ELSE IF ~GroupExists(group_id) THEN "NotFound"
       ELSE IF ~(\A i \in DOMAIN filtered : filtered[i].user_id \in get_users(group_id))
            THEN "NotAGroupMember"
       ELSE "ok"

\* The checks without the membership test.
AddExpenseCheckNoMembers(user, group_id, amount, splits) ==
    IF \E i \in DOMAIN splits : splits[i].user_id = user THEN "SelfSplitNotAllowed"
    ELSE IF amount <= 0 THEN "InvalidAmount"
    ELSE IF ~GroupExists(group_id) THEN "NotFound"
    ELSE "ok"

\* The checks of Mutation::add_expense, in the order the handler makes them:
\* the error it returns, or "ok".
AddExpenseCheck(user, group_id, amount, splits) ==
    LET filtered == SelectSeq(splits, LAMBDA f : f.amount > 0)
    IN IF \E i \in DOMAIN splits : splits[i].user_id = user THEN "SelfSplitNotAllowed"
       ELSE IF amount <= 0 THEN "InvalidAmount"
       ELSE IF ~GroupExists(group_id) THEN "NotFound"
       ELSE IF ~(\A i \in DOMAIN filtered : filtered[i].user_id \in get_users(group_id))
            THEN "NotAGroupMember"
       ELSE "ok"

\* Where the receipt image of a request is: "none" when the request names
\* no image_id, "temp" while the uploaded image is in temporary storage,
\* "moved" once S3::move_to_be has put it in permanent storage.
ImageStates == {"none", "temp", "moved"}

\* add_expense up to its call of Expense::new_expense, which begins the
\* transaction; image_id is None (image "none") or names an uploaded image
\* (image "temp").
AddExpenseStartWithImage(p, inputs, images) ==
    \E in \in inputs, image \in images :
        LET req == [NewRequest("add_expense", in.user, NoUser, in.group_id, in.amount,
                               in.currency_id, NoCurrency, in.splits)
                       EXCEPT !.image = image]
            check == AddExpenseCheck(in.user, in.group_id, in.amount, in.splits)
        IN /\ proc[p].pc = "idle"
           /\ proc' = [proc EXCEPT ![p] =
                  IF check = "ok"
                  THEN [req EXCEPT !.pc = "expense_insert",
                                   !.splits = SelectSeq(in.splits, LAMBDA f : f.amount > 0)]
                  ELSE [req EXCEPT !.result = check]]
           /\ UNCHANGED <<authVars, ledger, expenses, groupName, members>>

\* The add_expense calls without a receipt image.
AddExpenseStart(p, inputs) == AddExpenseStartWithImage(p, inputs, {"none"})

\* An add_expense call taken by a context that takes new requests.
AddExpenseBegin(p, inputs) == CanStart(p) /\ AddExpenseStart(p, inputs)

\* new_expense: INSERT INTO expenses, inside the transaction.
NewExpenseInsertExpense(p) ==
    /\ proc[p].pc = "expense_insert"
    /\ LET id == FreshExpenseId
           q == proc[p]
       IN proc' = [proc EXCEPT ![p] = [@ EXCEPT
              !.pc = "split_insert", !.expense_id = id,
              !.txe = <<ExpenseRow(id, q.self, q.group_id, q.amount, q.currency_id)>>]]
    /\ UNCHANGED <<authVars, ledger, expenses, groupName, members>>

\* new_expense: INSERT INTO split_transactions for the next share.
NewExpenseInsertSplit(p) ==
    /\ proc[p].pc = "split_insert"
    /\ Len(proc[p].tx) < Len(proc[p].splits)
    /\ LET q == proc[p]
           split == q.splits[Len(q.tx) + 1]
       IN proc' = [proc EXCEPT ![p].tx =
              Append(@, ExpenseSplitRow(q.expense_id, split, q.self, q.group_id,
                                        q.currency_id))]
    /\ UNCHANGED <<authVars, ledger, expenses, groupName, members>>

\* new_expense, after its last INSERT: s3.move_to_be(&image_id) moves the
\* image to permanent storage, before the commit.
NewExpenseMoveImage(p) ==
    /\ proc[p].pc = "split_insert"
    /\ Len(proc[p].tx) = Len(proc[p].splits)
    /\ proc[p].image = "temp"
    /\ proc' = [proc EXCEPT ![p].image = "moved"]
    /\ UNCHANGED <<authVars, ledger, expenses, groupName, members>>

\* new_expense commits; add_expense then notifies the users of the shares,
\* whatever comes of it, nets with every share's user, and
\* add_non_group_expense, when it was the caller, nets once more with the
\* user of every share submitted to it.
NewExpenseCommit(p) ==
    /\ proc[p].pc = "split_insert"
    /\ Len(proc[p].tx) = Len(proc[p].splits)
    /\ proc[p].image # "temp"
    /\ ledger' = CommitRows(ledger, proc[p].tx)
    /\ expenses' = CommitRows(expenses, proc[p].txe)
    /\ \E n \in (IF proc[p].splits = <<>> THEN {"none"} ELSE NotifyOutcomes) :
          proc' = [proc EXCEPT ![p] =
             [Netting(proc[p], "ok", proc[p].tx,
                      [i \in DOMAIN proc[p].splits |-> proc[p].splits[i].user_id]
                      \o (IF proc[p].op = "add_non_group_expense"
                          THEN [i \in DOMAIN proc[p].submitted |->
                                  proc[p].submitted[i].user_id]
                          ELSE <<>>))
                 EXCEPT !.notify = n]]
    /\ UNCHANGED <<authVars, groupName, members>>

\* --------------------------------------------------------- settle_in_group
\* Every settle_in_group call of a caller to another user.
SettleInputs ==
    {in \in [user : Callers, to_user : Users, group_id : {1, 2}, amount : Amounts,
             currency_id : Currencies] :
        /\ in.to_user # in.user
        /\ in.to_user = "u3" => in.currency_id = "USD" /\ in.amount = 1}

\* The checks of Mutation::settle_in_group before it begins its transaction.
SettleInGroupCheck(user, to_user, group_id) ==
    IF ~GroupExists(group_id) THEN "NotFound"
    ELSE IF to_user \notin get_users(group_id) \/ user \notin get_users(group_id)
         THEN "NotAGroupMember"
    ELSE "ok"

\* The payment booked with the payer as from_user.
SettleInGroupRowPayerFirst(user, to_user, group_id, amount, currency_id) ==
    settle_for_group(group_id, user, to_user, amount, user, NoId, "CashPaid",
                     NoGroup, currency_id)

\* A payment booked in the other currency than the one submitted.
SettleInGroupRowOtherCurrency(user, to_user, group_id, amount, currency_id) ==
    settle_for_group(group_id, to_user, user, amount, user, NoId, "CashPaid",
                     NoGroup, CHOOSE c \in Currencies : c # currency_id)

\* The row settle_in_group writes: settle_for_group(&group_id, &to_user,
\* &self_user.id, amount, &self_user.id, None, CashPaid, .., None, &currency_id).
SettleInGroupRow(user, to_user, group_id, amount, currency_id) ==
    settle_for_group(group_id, to_user, user, amount, user, NoId, "CashPaid",
                     NoGroup, currency_id)

\* settle_in_group up to the insert in its transaction.
SettleInGroupBegin(p, inputs) ==
    \E in \in inputs :
        LET req == NewRequest("settle_in_group", in.user, in.to_user, in.group_id,
                              in.amount, in.currency_id, NoCurrency, <<>>)
            check == SettleInGroupCheck(in.user, in.to_user, in.group_id)
        IN /\ CanStart(p)
           /\ proc' = [proc EXCEPT ![p] =
                  IF check = "ok"
                  THEN [req EXCEPT !.pc = "settle_commit",
                                   !.tx = <<SettleInGroupRow(in.user, in.to_user,
                                              in.group_id, in.amount, in.currency_id)>>]
                  ELSE [req EXCEPT !.result = check]]
           /\ UNCHANGED <<authVars, ledger, expenses, groupName, members>>

\* settle_in_group commits its row and nets with the payee.
SettleInGroupCommit(p) ==
    /\ proc[p].pc = "settle_commit"
    /\ ledger' = CommitRows(ledger, proc[p].tx)
    /\ ThenNetting(p, "ok", proc[p].tx, <<proc[p].with_user>>)
    /\ UNCHANGED <<authVars, expenses, groupName, members>>

\* ---------------------------------------------------- simplify_cross_group
\* The loops of simplify_cross_group over one currency bucket: `positive` is
\* positives[pi] with remaining_positive left, `negative` is negatives[k]
\* with negative_settled already drawn from it. The pairings made, in order,
\* each [positive, negative, amt_settle].
RECURSIVE PairFrom(_, _, _, _, _, _)
PairFrom(positives, negatives, pi, remaining_positive, k, negative_settled) ==
    IF pi > Len(positives) THEN <<>>
    ELSE IF k > Len(negatives)
    THEN \* negatives.next() is None: the while loop ends, on to the next positive
         IF pi + 1 > Len(positives) THEN <<>>
         ELSE PairFrom(positives, negatives, pi + 1, positives[pi + 1].amount, k,
                       negative_settled)
    ELSE LET negative_val == negatives[k]
             remaining_negative == Abs(negative_val.amount) - negative_settled
         IN IF remaining_negative > 0
            THEN IF remaining_negative > remaining_positive
                 THEN \* is_neg: continue 'po with the same negative
                      <<[positive |-> positives[pi].group_id,
                         negative |-> negative_val.group_id,
                         amt_settle |-> remaining_positive]>>
                      \o (IF pi + 1 > Len(positives) THEN <<>>
                          ELSE PairFrom(positives, negatives, pi + 1,
                                        positives[pi + 1].amount, k,
                                        negative_settled + remaining_positive))
                 ELSE <<[positive |-> positives[pi].group_id,
                         negative |-> negative_val.group_id,
                         amt_settle |-> remaining_negative]>>
                      \o PairFrom(positives, negatives, pi,
                                  remaining_positive - remaining_negative, k + 1, 0)
            ELSE PairFrom(positives, negatives, pi, remaining_positive, k + 1, 0)

\* The loops with a cursor of its own for every positive: each positive
\* starts again at the first negative, with nothing drawn from it.
RECURSIVE PairFromCursorReset(_, _, _, _, _, _)
PairFromCursorReset(positives, negatives, pi, remaining_positive, k, negative_settled) ==
    IF pi > Len(positives) THEN <<>>
    ELSE IF k > Len(negatives)
    THEN IF pi + 1 > Len(positives) THEN <<>>
         ELSE PairFromCursorReset(positives, negatives, pi + 1, positives[pi + 1].amount,
                                  1, 0)
    ELSE LET negative_val == negatives[k]
             remaining_negative == Abs(negative_val.amount) - negative_settled
         IN IF remaining_negative > 0
            THEN IF remaining_negative > remaining_positive
                 THEN <<[positive |-> positives[pi].group_id,
                         negative |-> negative_val.group_id,
                         amt_settle |-> remaining_positive]>>
                      \o (IF pi + 1 > Len(positives) THEN <<>>
                          ELSE PairFromCursorReset(positives, negatives, pi + 1,
                                                   positives[pi + 1].amount, 1, 0))
                 ELSE <<[positive |-> positives[pi].group_id,
                         negative |-> negative_val.group_id,
                         amt_settle |-> remaining_negative]>>
                      \o PairFromCursorReset(positives, negatives, pi,
                                             remaining_positive - remaining_negative,
                                             k + 1, 0)
            ELSE PairFromCursorReset(positives, negatives, pi, remaining_positive, k + 1, 0)

BucketPairingsCursorReset(owes) ==
    LET positives == SelectSeq(owes, LAMBDA ow : ow.amount > 0)
        negatives == SelectSeq(owes, LAMBDA ow : ow.amount < 0)
    IN IF positives = <<>> THEN <<>>
       ELSE PairFromCursorReset(positives, negatives, 1, positives[1].amount, 1, 0)

\* A pass that leaves out the last pairing of a bucket.
BucketPairingsWithoutLast(owes) ==
    LET positives == SelectSeq(owes, LAMBDA ow : ow.amount > 0)
        negatives == SelectSeq(owes, LAMBDA ow : ow.amount < 0)
        all == IF positives = <<>> THEN <<>>
               ELSE PairFrom(positives, negatives, 1, positives[1].amount, 1, 0)
    IN SubSeq(all, 1, Len(all) - 1)

\* A pass that stops after the first pairing of a bucket.
BucketPairingsFirstOnly(owes) ==
    LET positives == SelectSeq(owes, LAMBDA ow : ow.amount > 0)
        negatives == SelectSeq(owes, LAMBDA ow : ow.amount < 0)
        all == IF positives = <<>> THEN <<>>
               ELSE PairFrom(positives, negatives, 1, positives[1].amount, 1, 0)
    IN IF all = <<>> THEN <<>> ELSE <<all[1]>>

\* The pairings of one bucket, its entries in query order.
BucketPairings(owes) ==
    LET positives == SelectSeq(owes, LAMBDA ow : ow.amount > 0)
        negatives == SelectSeq(owes, LAMBDA ow : ow.amount < 0)
    IN IF positives = <<>> THEN <<>>
       ELSE PairFrom(positives, negatives, 1, positives[1].amount, 1, 0)

\* A pairing whose mirror row keeps the direction of the first.
PairingRowsSameDirection(pr, user, with_user, part_id, currency) ==
    <<settle_for_group(pr.positive, user, with_user, pr.amt_settle, user, part_id,
                       "CrossGroupSettlement", pr.negative, currency),
      settle_for_group(pr.negative, user, with_user, pr.amt_settle, user, part_id,
                       "CrossGroupSettlement", pr.positive, currency)>>

\* A pairing whose mirror row names its own group as the other group.
PairingRowsWithOwnGroup(pr, user, with_user, part_id, currency) ==
    <<settle_for_group(pr.positive, user, with_user, pr.amt_settle, user, part_id,
                       "CrossGroupSettlement", pr.negative, currency),
      settle_for_group(pr.negative, with_user, user, pr.amt_settle, user, part_id,
                       "CrossGroupSettlement", pr.negative, currency)>>

\* The two rows simplify_cross_group writes for one pairing.
PairingRows(pr, user, with_user, part_id, currency) ==
    <<settle_for_group(pr.positive, user, with_user, pr.amt_settle, user, part_id,
                       "CrossGroupSettlement", pr.negative, currency),
      settle_for_group(pr.negative, with_user, user, pr.amt_settle, user, part_id,
                       "CrossGroupSettlement", pr.positive, currency)>>

\* The rows of one bucket, all under the bucket's part_id.
BucketRows(owes, user, with_user, part_id, currency) ==
    LET prs == BucketPairings(SelectSeq(owes, LAMBDA ow : ow.currency_id = currency))
    IN Flatten([i \in DOMAIN prs |->
                  PairingRows(prs[i], user, with_user, part_id, currency)])

\* The rows of a whole pass over the buckets in the order `currencies`
\* (the iteration order of the HashMap), each bucket with its own uuid.
RECURSIVE SimplifyRows(_, _, _, _, _)
SimplifyRows(owes, currencies, user, with_user, part_id) ==
    IF currencies = <<>> THEN <<>>
    ELSE LET rows == BucketRows(owes, user, with_user, part_id, Head(currencies))
         IN rows \o SimplifyRows(owes, Tail(currencies), user, with_user,
                                 IF rows = <<>> THEN part_id ELSE part_id + 1)

\* Every direct simplify_cross_group call between the two callers.
SimplifyInputs == [user : Callers, with_user : Callers]

\* A direct call of the simplify_cross_group mutation.
SimplifyStart(p, inputs) ==
    \E in \in inputs :
        /\ proc[p].pc = "idle"
        /\ proc' = [proc EXCEPT ![p] =
               [NewRequest("simplify_cross_group", in.user, in.with_user, NoGroup, 0,
                           NoCurrency, NoCurrency, <<>>)
                   EXCEPT !.pc = "net_read", !.netq = <<in.with_user>>]]
        /\ UNCHANGED <<authVars, ledger, expenses, groupName, members>>

\* A simplify_cross_group call taken by a context that takes new requests.
SimplifyBegin(p, inputs) == CanStart(p) /\ SimplifyStart(p, inputs)

\* simplify_cross_group reads the balances with Head(netq) and works out its
\* rows; the query returns its rows, and the HashMap its buckets, in an
\* order the code does not fix.
SimplifyRead(p) ==
    /\ proc[p].pc = "net_read"
    /\ LET q == proc[p]
           with_user == Head(q.netq)
           found == get_owes_with_group(q.self, with_user, ledger)
       IN \E owes \in Orderings(found) :
          \E currencies \in Orderings({o.currency_id : o \in found}) :
             proc' = [proc EXCEPT ![p] = [@ EXCEPT
                 !.pc = "net_insert", !.tx = <<>>,
                 !.plan = SimplifyRows(owes, currencies, q.self, with_user,
                                       FreshPartId)]]
    /\ UNCHANGED <<authVars, ledger, expenses, groupName, members>>

\* The next settle_for_group of the pass, inside its transaction.
SimplifyInsert(p) ==
    /\ proc[p].pc = "net_insert"
    /\ Len(proc[p].tx) < Len(proc[p].plan)
    /\ proc' = [proc EXCEPT ![p].tx = Append(@, proc[p].plan[Len(proc[p].tx) + 1])]
    /\ UNCHANGED <<authVars, ledger, expenses, groupName, members>>

\* A handler that lets the error of its netting call through.
AfterPassSurfacing(p, result, rows) ==
    IF proc[p].op = "simplify_cross_group" \/ result # "ok" THEN Return(p, result, rows)
    ELSE ThenNetting(p, proc[p].result, proc[p].out, Tail(proc[p].netq))

\* The handlers that notify the payee after their netting call.
NotifyAfterNetting == {"settle_in_group", "auto_settle_with_user"}

\* What a pass leaves of the request: a direct call returns the pass's
\* result; a handler that called it ignores the result and goes on, to its
\* next netting call or, in settle_in_group and auto_settle_with_user, to the
\* notification of the payee, whatever comes of it, and its return.
AfterPass(p, result, rows) ==
    IF proc[p].op = "simplify_cross_group" THEN Return(p, result, rows)
    ELSE \E n \in (IF proc[p].op \in NotifyAfterNetting /\ Tail(proc[p].netq) = <<>>
                   THEN NotifyOutcomes ELSE {proc[p].notify}) :
            proc' = [proc EXCEPT ![p] =
               [Netting(proc[p], proc[p].result, proc[p].out, Tail(proc[p].netq))
                   EXCEPT !.notify = n]]

\* The pass commits.
SimplifyCommit(p) ==
    /\ proc[p].pc = "net_insert"
    /\ Len(proc[p].tx) = Len(proc[p].plan)
    /\ ledger' = CommitRows(ledger, proc[p].tx)
    /\ AfterPass(p, "ok", proc[p].tx)
    /\ UNCHANGED <<authVars, expenses, groupName, members>>

\* ---------------------------------------------------- auto_settle_with_user
\* The list as it came, not sorted.
SortDescSkipped(owes) == owes

\* sort_by(|a, b| b.1.cmp(&a.1)): a stable sort, largest amount first.
RECURSIVE SortDesc(_)
SortDesc(owes) ==
    IF owes = <<>> THEN <<>>
    ELSE LET top == CHOOSE i \in DOMAIN owes :
                      /\ \A j \in DOMAIN owes : owes[j].amount <= owes[i].amount
                      /\ \A j \in 1..(i - 1) : owes[j].amount < owes[i].amount
         IN <<owes[top]>>
            \o SortDesc([j \in 1..(Len(owes) - 1) |->
                           IF j < top THEN owes[j] ELSE owes[j + 1]])

\* The loop of auto_settle_with_user over the sorted balances: the legs it
\* writes for `remaining_amount`.
RECURSIVE AutoSettleLegs(_, _, _, _, _, _)
AutoSettleLegs(owes, remaining_amount, user, with_user, part_id, currency_id) ==
    IF owes = <<>> \/ remaining_amount <= 0 THEN <<>>
    ELSE LET owed == Head(owes)
             to_pay == Min(owed.amount, remaining_amount)
         IN IF owed.amount > 0
            THEN <<settle_for_group(owed.group_id, with_user, user, to_pay, user,
                                    part_id, "CashPaid", NoGroup, currency_id)>>
                 \o AutoSettleLegs(Tail(owes), remaining_amount - to_pay, user,
                                   with_user, part_id, currency_id)
            ELSE AutoSettleLegs(Tail(owes), remaining_amount, user, with_user,
                                part_id, currency_id)

\* The whole amount taken as left over, whatever the legs paid.
AutoSettleRemainingWhole(legs, amount) == amount

\* What is left of `amount` after the legs.
AutoSettleRemaining(legs, amount) ==
    amount - SumFn([i \in DOMAIN legs |-> legs[i].amount], DOMAIN legs)

\* Every auto_settle_with_user call between the two callers.
AutoSettleInputs ==
    {in \in [user : Callers, with_user : Callers, amount : Amounts,
             currency_id : Currencies] : in.with_user # in.user}

\* auto_settle_with_user up to the begin of its first transaction: it reads
\* what the caller owes with_user in the currency and sorts it.
AutoSettleStart(p, inputs) ==
    \E in \in inputs :
        LET found == {o \in get_owes_with_group(in.with_user, in.user, ledger) :
                        o.currency_id = in.currency_id}
            part_id == FreshPartId
        IN /\ proc[p].pc = "idle"
           /\ \E owes \in Orderings(found) :
                LET legs == AutoSettleLegs(SortDesc(owes), in.amount, in.user,
                                           in.with_user, part_id, in.currency_id)
                IN proc' = [proc EXCEPT ![p] =
                       [NewRequest("auto_settle_with_user", in.user, in.with_user,
                                   NoGroup, in.amount, in.currency_id, NoCurrency, <<>>)
                           EXCEPT !.pc = "auto_insert", !.part_id = part_id,
                                  !.plan = legs,
                                  !.remaining_amount =
                                      AutoSettleRemaining(legs, in.amount)]]
           /\ UNCHANGED <<authVars, ledger, expenses, groupName, members>>

AutoSettleBegin(p, inputs) == CanStart(p) /\ AutoSettleStart(p, inputs)

\* The next settle_for_group of the loop, inside the first transaction.
AutoSettleInsert(p) ==
    /\ proc[p].pc = "auto_insert"
    /\ Len(proc[p].tx) < Len(proc[p].plan)
    /\ proc' = [proc EXCEPT ![p].tx = Append(@, proc[p].plan[Len(proc[p].tx) + 1])]
    /\ UNCHANGED <<authVars, ledger, expenses, groupName, members>>

\* The first transaction commits; with an amount left over the handler goes
\* on to the direct group, otherwise to netting.
AutoSettleCommit(p) ==
    /\ proc[p].pc = "auto_insert"
    /\ Len(proc[p].tx) = Len(proc[p].plan)
    /\ ledger' = CommitRows(ledger, proc[p].tx)
    /\ IF proc[p].remaining_amount > 0
       THEN proc' = [proc EXCEPT ![p] = [@ EXCEPT !.pc = "auto_find", !.out = proc[p].tx,
                                                  !.tx = <<>>]]
       ELSE ThenNetting(p, "ok", proc[p].tx, <<proc[p].with_user>>)
    /\ UNCHANGED <<authVars, expenses, groupName, members>>

\* Group::find_group_for_users: the groups its query selects; fetch_one
\* takes the first of them, whichever the store lists first.
find_group_for_users(users) ==
    {g \in GroupIds :
        /\ groupName[g] = "unnamed"
        /\ members[g] \cap Range(users) # {}
        /\ Cardinality(members[g] \cap Range(users)) = Len(users)
        /\ Cardinality(members[g] \cap Range(users)) = Cardinality(Range(users) \cap Users)}

\* The handler finds the direct group of the two users.
AutoSettleFindGroup(p) ==
    /\ proc[p].pc = "auto_find"
    /\ \E g \in find_group_for_users(<<proc[p].self, proc[p].with_user>>) :
          proc' = [proc EXCEPT ![p] = [@ EXCEPT !.pc = "auto_leftover", !.group_id = g]]
    /\ UNCHANGED <<authVars, ledger, expenses, groupName, members>>

\* The query returns an error (no row, or the store failed): the handler
\* goes on to create a group.
AutoSettleFindGroupErr(p) ==
    /\ proc[p].pc = "auto_find"
    /\ proc' = [proc EXCEPT ![p].pc = "auto_create"]
    /\ UNCHANGED <<authVars, ledger, expenses, groupName, members>>

\* Group::create_group(&id, &self_user.id, None, pool): the group and its
\* creator's membership, in one transaction.
create_group(id, creator_id, name) ==
    /\ groupName' = [groupName EXCEPT ![id] = name]
    /\ members' = [members EXCEPT ![id] = {creator_id}]

AutoSettleCreateGroup(p) ==
    /\ proc[p].pc = "auto_create"
    /\ LET id == FreshGroupId
       IN /\ id # NoGroup
          /\ create_group(id, proc[p].self, "unnamed")
          /\ proc' = [proc EXCEPT ![p] = [@ EXCEPT !.pc = "auto_add", !.group_id = id]]
    /\ UNCHANGED <<authVars, ledger, expenses>>

\* Group::add_to_group(&group.id, user_id, pool): one membership row,
\* written through the pool.
add_to_group(group_id, user_id) ==
    members' = [members EXCEPT ![group_id] = @ \cup {user_id}]

AutoSettleAddToGroup(p) ==
    /\ proc[p].pc = "auto_add"
    /\ add_to_group(proc[p].group_id, proc[p].with_user)
    /\ proc' = [proc EXCEPT ![p].pc = "auto_leftover"]
    /\ UNCHANGED <<authVars, ledger, expenses, groupName>>

\* The second transaction: the leftover leg in the direct group, committed.
AutoSettleLeftover(p) ==
    /\ proc[p].pc = "auto_leftover"
    /\ LET q == proc[p]
           leg == settle_for_group(q.group_id, q.with_user, q.self,
                                   q.remaining_amount, q.self, q.part_id, "CashPaid",
                                   NoGroup, q.currency_id)
       IN /\ ledger' = CommitRows(ledger, <<leg>>)
          /\ ThenNetting(p, "ok", Append(q.out, leg), <<q.with_user>>)
    /\ UNCHANGED <<authVars, expenses, groupName, members>>

\* -------------------------------------------------------- convert_currency
\* The currencies table: the rate as a fraction, and the decimals.
CurrencyTable ==
    [c \in Currencies |->
        IF c = "USD" THEN [rate_num |-> 1, rate_den |-> 1, decimals |-> 2]
        ELSE [rate_num |-> 80, rate_den |-> 1, decimals |-> 0]]

RECURSIVE Pow10(_)
Pow10(n) == IF n <= 0 THEN 1 ELSE 10 * Pow10(n - 1)

\* The conversion by the rates alone, the decimals left out.
ConvertAmountIgnoringDecimals(owed, from, to) ==
    (Abs(owed) * from.rate_den * to.rate_num) \div (from.rate_num * to.rate_den)

\* owed.abs() * 10^(to.decimals - from.decimals) / from.rate * to.rate,
\* cast to i64 (truncated).
ConvertAmount(owed, from, to) ==
    LET d == to.decimals - from.decimals
        num == Abs(owed) * Pow10(d) * from.rate_den * to.rate_num
        den == Pow10(-d) * from.rate_num * to.rate_den
    IN num \div den

\* The SELECT without its currency condition: the balance over all
\* currencies of the group.
ConvertOwedAnyCurrency(user, with_user, group_id, currency_id, rows) ==
    SumFn([i \in DOMAIN rows |->
             IF /\ \/ rows[i].from_user = user /\ rows[i].to_user = with_user
                   \/ rows[i].from_user = with_user /\ rows[i].to_user = user
                /\ rows[i].group_id = group_id
             THEN (IF rows[i].from_user = user THEN rows[i].amount ELSE -rows[i].amount)
             ELSE 0],
          DOMAIN rows)

\* The SELECT of convert_currency: what the caller owes with_user in the
\* group and currency, $1 = user.id; NULL (no row) reads as 0.
ConvertOwed(user, with_user, group_id, currency_id, rows) ==
    SumFn([i \in DOMAIN rows |->
             IF /\ \/ rows[i].from_user = user /\ rows[i].to_user = with_user
                   \/ rows[i].from_user = with_user /\ rows[i].to_user = user
                /\ rows[i].group_id = group_id
                /\ rows[i].currency_id = currency_id
             THEN (IF rows[i].from_user = user THEN rows[i].amount ELSE -rows[i].amount)
             ELSE 0],
          DOMAIN rows)

\* A CurrencyConversion row as convert_currency inserts it.
ConversionRow(amount, from_user, to_user, part_id, created_by, group_id, currency_id) ==
    [expense_id |-> NoId, group_id |-> group_id, amount |-> amount,
     currency_id |-> currency_id, from_user |-> from_user, to_user |-> to_user,
     transaction_type |-> "CurrencyConversion", part_transaction |-> part_id,
     created_by |-> created_by, with_group_id |-> NoGroup]

\* A conversion whose second row runs the same way as the first.
ConversionRowsSameDirection(owed, user, with_user, group_id, from_currency_id, to_currency_id, part_id) ==
    LET from == IF owed > 0 THEN with_user ELSE user
        to == IF owed > 0 THEN user ELSE with_user
        to_amount == ConvertAmount(owed, CurrencyTable[from_currency_id],
                                   CurrencyTable[to_currency_id])
    IN <<ConversionRow(Abs(owed), from, to, part_id, user, group_id, from_currency_id),
         ConversionRow(to_amount, from, to, part_id, user, group_id, to_currency_id)>>

\* The rows rev and forw of a conversion of `owed`.
ConversionRows(owed, user, with_user, group_id, from_currency_id, to_currency_id, part_id) ==
    LET from == IF owed > 0 THEN with_user ELSE user
        to == IF owed > 0 THEN user ELSE with_user
        to_amount == ConvertAmount(owed, CurrencyTable[from_currency_id],
                                   CurrencyTable[to_currency_id])
    IN <<ConversionRow(Abs(owed), from, to, part_id, user, group_id, from_currency_id),
         ConversionRow(to_amount, to, from, part_id, user, group_id, to_currency_id)>>

\* Every convert_currency call between the two callers.
ConvertInputs ==
    {in \in [user : Callers, with_user : Callers, group_id : {1, 2},
             from_currency_id : Currencies, to_currency_id : Currencies] :
        in.with_user # in.user /\ in.from_currency_id # in.to_currency_id}

\* convert_currency up to the begin of its transaction; with nothing owed
\* it returns an empty list.
ConvertStart(p, inputs) ==
    \E in \in inputs :
        LET owed == ConvertOwed(in.user, in.with_user, in.group_id,
                                in.from_currency_id, ledger)
            part_id == FreshPartId
            req == NewRequest("convert_currency", in.user, in.with_user, in.group_id,
                              owed, in.from_currency_id, in.to_currency_id, <<>>)
        IN /\ proc[p].pc = "idle"
           /\ proc' = [proc EXCEPT ![p] =
                  IF owed = 0 THEN [req EXCEPT !.result = "ok"]
                  ELSE [req EXCEPT !.pc = "convert_insert", !.part_id = part_id,
                                   !.plan = ConversionRows(owed, in.user, in.with_user,
                                               in.group_id, in.from_currency_id,
                                               in.to_currency_id, part_id)]]
           /\ UNCHANGED <<authVars, ledger, expenses, groupName, members>>

\* A convert_currency call taken by a context that takes new requests.
ConvertBegin(p, inputs) == CanStart(p) /\ ConvertStart(p, inputs)

\* The next INSERT of the conversion, inside its transaction.
ConvertInsert(p) ==
    /\ proc[p].pc = "convert_insert"
    /\ Len(proc[p].tx) < Len(proc[p].plan)
    /\ proc' = [proc EXCEPT ![p].tx = Append(@, proc[p].plan[Len(proc[p].tx) + 1])]
    /\ UNCHANGED <<authVars, ledger, expenses, groupName, members>>

\* The conversion commits and nets with with_user.
ConvertCommit(p) ==
    /\ proc[p].pc = "convert_insert"
    /\ Len(proc[p].tx) = Len(proc[p].plan)
    /\ ledger' = CommitRows(ledger, proc[p].tx)
    /\ ThenNetting(p, "ok", proc[p].tx, <<proc[p].with_user>>)
    /\ UNCHANGED <<authVars, expenses, groupName, members>>

\* ------------------------------------------------------------- store errors
\* The places where the handler is inside a transaction of its own or
\* between its own writes.
PrimaryPcs ==
    {"expense_insert", "split_insert", "settle_commit", "auto_insert", "auto_create",
     "auto_add", "auto_leftover", "convert_insert", "ng_create", "ng_expense"}

\* A database (or object store) call of the request fails. In the handler
\* itself the error returns through `?` and the open transaction is dropped;
\* in a netting pass run after the commit it ends that pass only.
StoreError(p) ==
    /\ \/ /\ proc[p].pc \in PrimaryPcs
          /\ Return(p, "StoreError", <<>>)
       \/ /\ proc[p].pc \in {"net_read", "net_insert"}
          /\ AfterPass(p, "StoreError", <<>>)
    /\ ledger' = DropTx(ledger, proc[p].tx)
    /\ expenses' = DropTx(expenses, proc[p].txe)
    /\ UNCHANGED <<authVars, groupName, members>>

\* ------------------------------------------------------------ specification
\* One context serving one request after another.
Next ==
    \/ AddExpenseBegin("p1", OneShareExpenseInputs)
    \/ NewExpenseInsertExpense("p1")
    \/ NewExpenseInsertSplit("p1")
    \/ NewExpenseCommit("p1")
    \/ SettleInGroupBegin("p1", SettleInputs)
    \/ SettleInGroupCommit("p1")
    \/ SimplifyBegin("p1", SimplifyInputs)
    \/ SimplifyRead("p1")
    \/ SimplifyInsert("p1")
    \/ SimplifyCommit("p1")
    \/ AutoSettleBegin("p1", AutoSettleInputs)
    \/ AutoSettleInsert("p1")
    \/ AutoSettleCommit("p1")
    \/ AutoSettleFindGroup("p1")
    \/ AutoSettleFindGroupErr("p1")
    \/ AutoSettleCreateGroup("p1")
    \/ AutoSettleAddToGroup("p1")
    \/ AutoSettleLeftover("p1")
    \/ ConvertBegin("p1", ConvertInputs)
    \/ ConvertInsert("p1")
    \/ ConvertCommit("p1")
    \/ StoreError("p1")
    \/ Respond("p1")

Spec == Init /\ [][Next]_vars

\* add_expense calls alone, with every share list of up to two shares, in
\* one currency; MaxExpenses bounds how many expenses get booked.
MaxExpenses == 2

SingleCurrencyExpenseInputs == {in \in AllExpenseInputs : in.currency_id = "USD"}

NextExpense ==
    \/ /\ Len(expenses) < MaxExpenses
       /\ CanStart("p1")
       /\ AddExpenseStartWithImage("p1", SingleCurrencyExpenseInputs, {"none", "temp"})
    \/ NewExpenseInsertExpense("p1")
    \/ NewExpenseInsertSplit("p1")
    \/ NewExpenseMoveImage("p1")
    \/ NewExpenseCommit("p1")
    \/ SimplifyRead("p1")
    \/ SimplifyInsert("p1")
    \/ SimplifyCommit("p1")
    \/ StoreError("p1")
    \/ Respond("p1")

SpecExpense == Init /\ [][NextExpense]_vars

\* Two contexts at once, their steps interleaved: both make direct netting
\* calls, and the second also books expenses between the two callers.
ConcExpenseInputs ==
    {in \in OneShareExpenseInputs : in.splits[1].user_id # "u3"}

NextConc ==
    \/ \E p \in Procs :
          \/ SimplifyBegin(p, SimplifyInputs)
          \/ SimplifyRead(p)
          \/ SimplifyInsert(p)
          \/ SimplifyCommit(p)
          \/ StoreError(p)
          \/ Respond(p)
    \/ AddExpenseBegin("p2", ConcExpenseInputs)
    \/ NewExpenseInsertExpense("p2")
    \/ NewExpenseInsertSplit("p2")
    \/ NewExpenseCommit("p2")

SpecConc == Init /\ [][NextConc]_vars

\* ------------------------------------------------------------ group changes
\* Mutation::create_group: a named group with its creator as only member.
CreateGroup(p, users) ==
    /\ proc[p].pc = "idle"
    /\ \E user \in users :
          LET id == FreshGroupId
          IN
          /\ id # NoGroup
          /\ create_group(id, user, "named")
          /\ proc' = [proc EXCEPT ![p] =
                 [NewRequest("create_group", user, NoUser, id, 0, NoCurrency,
                             NoCurrency, <<>>) EXCEPT !.result = "ok"]]
    /\ UNCHANGED <<authVars, ledger, expenses>>

\* The add_to_group_by_email calls that name a user who is not yet in the
\* group.
AddToGroupInputs ==
    {in \in [user : Callers, group_id : GroupIds, to_user : Users] :
        in.to_user # in.user}

\* Mutation::add_to_group_by_email: the group must exist and the caller be
\* one of its members; the group may be named or not. An address no user
\* has gets a user without a name (User::new_invite_user).
AddToGroupByEmail(p, inputs) ==
    \E in \in inputs :
        LET req == NewRequest("add_to_group_by_email", in.user, in.to_user,
                              in.group_id, 0, NoCurrency, NoCurrency, <<>>)
        IN /\ proc[p].pc = "idle"
           /\ in.to_user \notin members[in.group_id]
           /\ IF ~GroupExists(in.group_id)
              THEN /\ proc' = [proc EXCEPT ![p] = [req EXCEPT !.result = "NotFound"]]
                   /\ UNCHANGED members
              ELSE IF in.user \notin members[in.group_id]
              THEN /\ proc' = [proc EXCEPT ![p] = [req EXCEPT !.result = "NotAGroupMember"]]
                   /\ UNCHANGED members
              ELSE /\ add_to_group(in.group_id, in.to_user)
                   /\ proc' = [proc EXCEPT ![p] = [req EXCEPT !.result = "ok"]]
           /\ userTable' = IF /\ GroupExists(in.group_id)
                              /\ in.user \in members[in.group_id]
                              /\ userTable[in.to_user] = "absent"
                           THEN [userTable EXCEPT ![in.to_user] = "invited"]
                           ELSE userTable
           /\ UNCHANGED <<ledger, expenses, groupName, hash_map, heap, now, issued, spent, lastAccess>>

\* ------------------------------------------------- auto_settle on its own
\* Lump-sum payments against debts booked in the two named groups, with
\* members added to groups in between. MaxAutoRows bounds the ledger a
\* payment may start from.
MaxAutoRows == 3

\* Expenses of u2 with one share, owed by u1.
AutoExpenseInputs ==
    {in \in [user : {"u2"}, group_id : {1, 2}, amount : {3}, currency_id : Currencies,
             splits : [1..1 -> [user_id : {"u1"}, amount : {1, 2, 3}]]] :
        IF in.currency_id = "USD" THEN in.splits[1].amount >= 2
        ELSE in.splits[1].amount = 1}

\* The lump sums paid.
AutoAmounts == {0, 1, 4}

AutoSettleAmountInputs ==
    {in \in [user : Callers, with_user : Callers, amount : AutoAmounts,
             currency_id : Currencies] : in.with_user # in.user}

NextAuto ==
    \/ AddExpenseBegin("p1", AutoExpenseInputs)
    \/ NewExpenseInsertExpense("p1")
    \/ NewExpenseInsertSplit("p1")
    \/ NewExpenseCommit("p1")
    \/ /\ Len(ledger) < MaxAutoRows
       /\ AutoSettleStart("p1", AutoSettleAmountInputs)
    \/ AutoSettleInsert("p1")
    \/ AutoSettleCommit("p1")
    \/ AutoSettleFindGroup("p1")
    \/ AutoSettleFindGroupErr("p1")
    \/ AutoSettleCreateGroup("p1")
    \/ AutoSettleAddToGroup("p1")
    \/ AutoSettleLeftover("p1")
    \/ AddToGroupByEmail("p1", AddToGroupInputs)
    \/ SimplifyRead("p1")
    \/ SimplifyInsert("p1")
    \/ SimplifyCommit("p1")
    \/ StoreError("p1")
    \/ Respond("p1")

SpecAuto == Init /\ [][NextAuto]_vars

\* --------------------------------------------------- add_non_group_expense
\* The users add_non_group_expense looks a group up for: the caller, then
\* the user of every share.
NonGroupUserIds(q) ==
    <<q.self>> \o [i \in DOMAIN q.submitted |-> q.submitted[i].user_id]

\* The users a handler hands to find_group_for_users.
UserIds(q) ==
    IF q.op = "auto_settle_with_user" THEN <<q.self, q.with_user>>
    ELSE NonGroupUserIds(q)

\* add_non_group_expense up to its group lookup; every share names a user
\* by id.
NonGroupBegin(p, inputs) ==
    \E in \in inputs :
        /\ CanStart(p)
        /\ proc' = [proc EXCEPT ![p] =
               [NewRequest("add_non_group_expense", in.user, NoUser, NoGroup, in.amount,
                           in.currency_id, NoCurrency, in.splits)
                   EXCEPT !.pc = "ng_find"]]
        /\ UNCHANGED <<authVars, ledger, expenses, groupName, members>>

\* Ok(gid): the lookup returns a group.
NonGroupFindGroup(p) ==
    /\ proc[p].pc = "ng_find"
    /\ \E g \in find_group_for_users(NonGroupUserIds(proc[p])) :
          proc' = [proc EXCEPT ![p] = [@ EXCEPT !.pc = "ng_expense", !.group_id = g]]
    /\ UNCHANGED <<authVars, ledger, expenses, groupName, members>>

\* Err(err): no row, or the store failed; the handler creates a group.
NonGroupFindGroupErr(p) ==
    /\ proc[p].pc = "ng_find"
    /\ proc' = [proc EXCEPT ![p].pc = "ng_create"]
    /\ UNCHANGED <<authVars, ledger, expenses, groupName, members>>

\* Group::create_group(&id, &_user.id, None, pool), then one add_to_group
\* per share is started.
NonGroupCreateGroup(p) ==
    /\ proc[p].pc = "ng_create"
    /\ LET id == FreshGroupId
       IN /\ id # NoGroup
          /\ create_group(id, proc[p].self, "unnamed")
          /\ proc' = [proc EXCEPT ![p] = [@ EXCEPT
                 !.pc = IF proc[p].submitted = <<>> THEN "ng_expense" ELSE "ng_add",
                 !.group_id = id,
                 !.to_add = [i \in DOMAIN proc[p].submitted |->
                               proc[p].submitted[i].user_id]]]
    /\ UNCHANGED <<authVars, ledger, expenses>>

\* What is left of the adds once the one at position i is over; after the
\* last the handler returns an error if any failed, and goes on to
\* add_expense otherwise.
AfterAdd(q, i, failed) ==
    LET rest == [j \in 1..(Len(q.to_add) - 1) |->
                   IF j < i THEN q.to_add[j] ELSE q.to_add[j + 1]]
        result == IF failed THEN "CannotAddEveryone" ELSE q.result
    IN [q EXCEPT !.to_add = rest, !.result = result,
                 !.pc = IF rest # <<>> THEN "ng_add"
                        ELSE IF result = "CannotAddEveryone" THEN "done"
                        ELSE "ng_expense"]

\* One of the pending add_to_group calls completes (FuturesUnordered: in
\* any order).
NonGroupAddToGroup(p) ==
    /\ proc[p].pc = "ng_add"
    /\ \E i \in DOMAIN proc[p].to_add :
          /\ add_to_group(proc[p].group_id, proc[p].to_add[i])
          /\ proc' = [proc EXCEPT ![p] = AfterAdd(proc[p], i, FALSE)]
    /\ UNCHANGED <<authVars, ledger, expenses, groupName>>

\* One of the pending add_to_group calls fails; the others still run.
NonGroupAddFailed(p) ==
    /\ proc[p].pc = "ng_add"
    /\ \E i \in DOMAIN proc[p].to_add :
          proc' = [proc EXCEPT ![p] = AfterAdd(proc[p], i, TRUE)]
    /\ UNCHANGED <<authVars, ledger, expenses, groupName, members>>

\* self.add_expense(context, group.id, ...): its checks, up to new_expense.
NonGroupAddExpense(p) ==
    /\ proc[p].pc = "ng_expense"
    /\ LET q == proc[p]
           check == AddExpenseCheck(q.self, q.group_id, q.amount, q.submitted)
       IN proc' = [proc EXCEPT ![p] =
              IF check = "ok"
              THEN [q EXCEPT !.pc = "expense_insert",
                             !.splits = SelectSeq(q.submitted, LAMBDA f : f.amount > 0)]
              ELSE [q EXCEPT !.pc = "done", !.result = check]]
    /\ UNCHANGED <<authVars, ledger, expenses, groupName, members>>

\* ------------------------------------------------------- groups on their own
\* Groups made and looked up by non-group expenses and direct payments,
\* with groups created and members added in between. MaxGroupRows bounds
\* the rows of the two tables an expense or payment may start from.
MaxGroupRows == 2

\* The database before any group exists.
InitGroups ==
    /\ ledger = <<>>
    /\ expenses = <<>>
    /\ groupName = [g \in GroupIds |-> "absent"]
    /\ members = [g \in GroupIds |-> {}]
    /\ proc = [p \in Procs |-> IdleProc]
    /\ AllSignedUp

\* Non-group expenses of 2 by u1: no share, a share of 1 for u2, for u2 and
\* u3, for u2 twice, or for u1; and one of 0 with a share of 1 for u2.
NonGroupInputs ==
    [user : {"u1"}, amount : {2}, currency_id : {"USD"},
     splits : {<<>>,
               <<[user_id |-> "u2", amount |-> 1]>>,
               <<[user_id |-> "u2", amount |-> 1], [user_id |-> "u3", amount |-> 1]>>,
               <<[user_id |-> "u2", amount |-> 1], [user_id |-> "u2", amount |-> 1]>>,
               <<[user_id |-> "u1", amount |-> 1]>>}]
    \cup {[user |-> "u1", amount |-> 0, currency_id |-> "USD",
           splits |-> <<[user_id |-> "u2", amount |-> 1]>>]}

\* Payments of 1 between the two callers.
DirectPaymentInputs ==
    {in \in AutoSettleAmountInputs : in.amount = 1 /\ in.currency_id = "USD"}

NextGroups ==
    \/ CreateGroup("p1", {"u1"})
    \/ AddToGroupByEmail("p1", AddToGroupInputs)
    \/ /\ Len(ledger) + Len(expenses) < MaxGroupRows
       /\ NonGroupBegin("p1", NonGroupInputs)
    \/ NonGroupFindGroup("p1")
    \/ NonGroupFindGroupErr("p1")
    \/ NonGroupCreateGroup("p1")
    \/ NonGroupAddToGroup("p1")
    \/ NonGroupAddFailed("p1")
    \/ NonGroupAddExpense("p1")
    \/ NewExpenseInsertExpense("p1")
    \/ NewExpenseInsertSplit("p1")
    \/ NewExpenseCommit("p1")
    \/ /\ Len(ledger) + Len(expenses) < MaxGroupRows
       /\ AutoSettleBegin("p1", DirectPaymentInputs)
    \/ AutoSettleInsert("p1")
    \/ AutoSettleCommit("p1")
    \/ AutoSettleFindGroup("p1")
    \/ AutoSettleFindGroupErr("p1")
    \/ AutoSettleCreateGroup("p1")
    \/ AutoSettleAddToGroup("p1")
    \/ AutoSettleLeftover("p1")
    \/ SimplifyRead("p1")
    \/ SimplifyInsert("p1")
    \/ SimplifyCommit("p1")
    \/ StoreError("p1")
    \/ Respond("p1")

SpecGroups == InitGroups /\ [][NextGroups]_vars

\* ------------------------------------------------ three groups of one pair
\* u1 and u2 share three named groups and book expenses for each other in
\* them; a context takes a new expense while the ledger has fewer than
\* MaxPairRows rows, and a direct simplify_cross_group call at any time.
MaxPairRows == 3

InitPairing ==
    /\ ledger = <<>>
    /\ expenses = <<>>
    /\ groupName = [g \in GroupIds |-> "named"]
    /\ members = [g \in GroupIds |-> {"u1", "u2"}]
    /\ proc = [p \in Procs |-> IdleProc]
    /\ AllSignedUp

PairingExpenseInputs ==
    {in \in [user : Callers, group_id : GroupIds, amount : {2}, currency_id : {"USD"},
             splits : [1..1 -> [user_id : Callers, amount : {1, 2}]]] :
        in.splits[1].user_id # in.user}

PairingSimplifyInputs == {in \in SimplifyInputs : in.with_user # in.user}

NextPairing ==
    \/ /\ Len(ledger) < MaxPairRows
       /\ AddExpenseStart("p1", PairingExpenseInputs)
    \/ NewExpenseInsertExpense("p1")
    \/ NewExpenseInsertSplit("p1")
    \/ NewExpenseCommit("p1")
    \/ SimplifyStart("p1", PairingSimplifyInputs)
    \/ SimplifyRead("p1")
    \/ SimplifyInsert("p1")
    \/ SimplifyCommit("p1")
    \/ StoreError("p1")
    \/ Respond("p1")

SpecPairing == InitPairing /\ [][NextPairing]_vars

\* ------------------------------------------------ conversions of a balance
\* One user has booked a share of up to MaxBalance minor units for the
\* other in group 1, and the other may have booked a share of 1 in the other
\* currency in group 2; the balances are then converted. A context takes a
\* conversion while the ledger has fewer than MaxConvertRows rows.
MaxBalance == 500
MaxConvertRows == 3

InitConvert ==
    \E payer \in Callers, n \in 1..MaxBalance, c \in Currencies, second \in BOOLEAN :
        LET c2 == CHOOSE x \in Currencies : x # c
        IN /\ ledger = <<ExpenseSplitRow(1, [user_id |-> Other(payer), amount |-> n],
                                        payer, 1, c)>>
                       \o (IF second
                           THEN <<ExpenseSplitRow(2, [user_id |-> payer, amount |-> 1],
                                                  Other(payer), 2, c2)>>
                           ELSE <<>>)
           /\ expenses = <<ExpenseRow(1, payer, 1, n, c)>>
                         \o (IF second THEN <<ExpenseRow(2, Other(payer), 2, 1, c2)>>
                             ELSE <<>>)
           /\ groupName = [g \in GroupIds |-> IF g = 3 THEN "absent" ELSE "named"]
           /\ members = [g \in GroupIds |->
                           IF g = 1 THEN {"u1", "u2"}
                           ELSE IF g = 2 THEN {"u1", "u2", "u3"} ELSE {}]
           /\ proc = [p \in Procs |-> IdleProc]
           /\ AllSignedUp

NextConvert ==
    \/ /\ Len(ledger) < MaxConvertRows
       /\ ConvertStart("p1", ConvertInputs)
    \/ ConvertInsert("p1")
    \/ ConvertCommit("p1")
    \/ SimplifyRead("p1")
    \/ SimplifyInsert("p1")
    \/ SimplifyCommit("p1")
    \/ StoreError("p1")
    \/ Respond("p1")

SpecConvert == InitConvert /\ [][NextConvert]_vars

\* ------------------------------------------------- callers outside a group
\* Expenses and payments submitted by any user, member of the group or not:
\* groups 1 and 2 are as in Init, so u3 is no member of group 1.
MemberExpenseInputs ==
    {in \in [user : Users, group_id : {1, 2}, amount : {2}, currency_id : {"USD"},
             splits : [1..1 -> [user_id : Users, amount : {1}]]] :
        in.splits[1].user_id # in.user}

MemberSettleInputs ==
    {in \in [user : Users, to_user : Users, group_id : {1, 2}, amount : {1},
             currency_id : {"USD"}] : in.to_user # in.user}

NextMembers ==
    \/ AddExpenseBegin("p1", MemberExpenseInputs)
    \/ NewExpenseInsertExpense("p1")
    \/ NewExpenseInsertSplit("p1")
    \/ NewExpenseCommit("p1")
    \/ SettleInGroupBegin("p1", MemberSettleInputs)
    \/ SettleInGroupCommit("p1")
    \/ SimplifyRead("p1")
    \/ SimplifyInsert("p1")
    \/ SimplifyCommit("p1")
    \/ StoreError("p1")
    \/ Respond("p1")

SpecMembers == Init /\ [][NextMembers]_vars

\* ----------------------------------------------------------- ExpiringHashMap
\* ExpiringHashMap.duration, in ticks.
Duration == 2

\* How far the clock runs, and how many entries one cleanup is followed
\* through popping before it counts as still looping.
MaxNow == 4
MaxPops == 6

HeapValue(instant, key) == [instant |-> instant, key |-> key]

\* The map without a key.
Without(hm, key) == [k \in DOMAIN hm \ {key} |-> hm[k]]

\* BinaryHeap::peek and pop: Ord on HeapValue is reversed, so the top is an
\* entry with the least instant; which of several with the same instant is
\* up to the heap.
HeapTops(hp) ==
    {e \in BagToSet(hp) : \A f \in BagToSet(hp) : e.instant <= f.instant}

\* ExpiringHashMap::insert at instant t: the map and heap it leaves and the
\* previous value it returns.
insert(hm, hp, key, v, t) ==
    IF key \in DOMAIN hm
    THEN [hash_map |-> [hm EXCEPT ![key] = [instant |-> t, value |-> v]], heap |-> hp,
          prev |-> hm[key].value]
    ELSE [hash_map |-> (key :> [instant |-> t, value |-> v]) @@ hm,
          heap |-> hp (+) SetToBag({HeapValue(t, key)}), prev |-> "none"]

\* The while loop of ExpiringHashMap::cleanup with `pops` pops still
\* followed: every way it can end. "returned": the loop ended; "panicked":
\* hash_map[&key] indexed a key that is not in the map; "looping": it would
\* pop once more than it is followed.
RECURSIVE cleanup_loop(_, _, _, _)
cleanup_loop(hm, hp, deadline, pops) ==
    IF BagToSet(hp) = {} THEN {[hash_map |-> hm, heap |-> hp, end |-> "returned"]}
    ELSE UNION {
        IF e.instant > deadline
        THEN {[hash_map |-> hm, heap |-> hp, end |-> "returned"]}
        ELSE IF pops = 0
        THEN {[hash_map |-> hm, heap |-> hp, end |-> "looping"]}
        ELSE LET popped == hp (-) SetToBag({e})
             IN IF e.key \notin DOMAIN hm
                THEN {[hash_map |-> hm, heap |-> popped, end |-> "panicked"]}
                ELSE IF hm[e.key].instant > deadline
                THEN cleanup_loop(hm, popped (+) SetToBag({HeapValue(hm[e.key].instant, e.key)}),
                                  deadline, pops - 1)
                ELSE cleanup_loop(Without(hm, e.key), popped, deadline, pops - 1)
        : e \in HeapTops(hp)}

\* ExpiringHashMap::cleanup at instant t.
cleanup(hm, hp, t) == cleanup_loop(hm, hp, t - Duration, MaxPops)

\* A get that does not clean up first.
get_without_cleanup(hm, hp, k, t) ==
    {IF k \in DOMAIN hm
     THEN [hash_map |-> [hm EXCEPT ![k].instant = t], heap |-> hp,
           end |-> "returned", value |-> hm[k].value]
     ELSE [hash_map |-> hm, heap |-> hp, end |-> "returned", value |-> "none"]}

\* ExpiringHashMap::get at instant t: cleanup, then the value of the key,
\* whose instant becomes t; "none" for None.
get(hm, hp, k, t) ==
    {IF c.end = "returned" /\ k \in DOMAIN c.hash_map
     THEN [hash_map |-> [c.hash_map EXCEPT ![k].instant = t], heap |-> c.heap,
           end |-> c.end, value |-> c.hash_map[k].value]
     ELSE [hash_map |-> c.hash_map, heap |-> c.heap, end |-> c.end, value |-> "none"]
     : c \in cleanup(hm, hp, t)}

\* What a call on the map leaves in the context that made it.
MapCall(op, key, value, end) ==
    [IdleProc EXCEPT !.op = op, !.email = key, !.otp = value,
                     !.result = IF end = "returned" THEN "ok" ELSE end]

\* map.insert(key, v)
InsertCall(p, keys, values) ==
    \E k \in keys, v \in values :
        LET r == insert(hash_map, heap, k, v, now)
        IN /\ hash_map' = r.hash_map
           /\ heap' = r.heap
           /\ lastAccess' = [lastAccess EXCEPT ![k] = now]
           /\ proc' = [proc EXCEPT ![p] = MapCall("insert", k, r.prev, "returned")]
           /\ UNCHANGED <<ledger, expenses, groupName, members, userTable, now, issued, spent>>

\* map.get(&key)
GetCall(p, keys) ==
    \E k \in keys :
        \E r \in get(hash_map, heap, k, now) :
            /\ hash_map' = r.hash_map
            /\ heap' = r.heap
            /\ lastAccess' = IF r.value # "none" THEN [lastAccess EXCEPT ![k] = now]
                             ELSE lastAccess
            /\ proc' = [proc EXCEPT ![p] = MapCall("get", k, r.value, r.end)]
            /\ UNCHANGED <<ledger, expenses, groupName, members, userTable, now, issued, spent>>

\* map.cleanup()
CleanupCall(p) ==
    \E r \in cleanup(hash_map, heap, now) :
        /\ hash_map' = r.hash_map
        /\ heap' = r.heap
        /\ proc' = [proc EXCEPT ![p] = MapCall("cleanup", "none", "none", r.end)]
        /\ UNCHANGED <<ledger, expenses, groupName, members, userTable, now, issued, spent, lastAccess>>

\* Time passes.
Tick ==
    /\ now < MaxNow
    /\ now' = now + 1
    /\ UNCHANGED <<ledger, expenses, groupName, members, proc, userTable, hash_map, heap, issued, spent, lastAccess>>

\* The map on its own: inserts, gets and cleanups of two keys as time passes.
MapKeys == {"u1", "u2"}
MapValues == {"000001", "000002"}

NextExpire ==
    \/ InsertCall("p1", MapKeys, MapValues)
    \/ GetCall("p1", MapKeys)
    \/ CleanupCall("p1")
    \/ Tick

SpecExpire == Init /\ [][NextExpire]_vars

\* ------------------------------------------------------------ sign-in calls
\* format!("{:06}", random_number): six decimal digits, zero-padded.
Digit(d) == <<"0", "1", "2", "3", "4", "5", "6", "7", "8", "9">>[d + 1]

Format06(n) ==
    Digit((n \div 100000) % 10) \o Digit((n \div 10000) % 10) \o Digit((n \div 1000) % 10)
    \o Digit((n \div 100) % 10) \o Digit((n \div 10) % 10) \o Digit(n % 10)

\* The numbers rng.gen_range(0..1_000_000) draws here, and the passcodes a
\* caller submits.
OtpNumbers == {1, 2}
SubmittedOtps == {"000001", "000002", GuestOtp}

\* otp_map.remove(&email): the entry leaves the map, and the heap with it.
remove(hm, hp, key) ==
    [hash_map |-> Without(hm, key),
     heap |-> [e \in {x \in DOMAIN hp : x.key # key} |-> hp[e]]]

\* send_email_otp, its first lock section: the passcode already out for the
\* address, or a new random one.
SendOtpStart(p, emails, numbers) ==
    \E email \in emails :
        \E r \in get(hash_map, heap, email, now) :
            \E otp \in (IF r.value # "none" THEN {r.value}
                        ELSE {Format06(n) : n \in numbers}) :
                /\ proc[p].pc = "idle"
                /\ hash_map' = r.hash_map
                /\ heap' = r.heap
                /\ lastAccess' = IF r.value # "none"
                                 THEN [lastAccess EXCEPT ![email] = now] ELSE lastAccess
                /\ proc' = [proc EXCEPT ![p] =
                       IF r.end # "returned"
                       THEN [IdleProc EXCEPT !.op = "send_email_otp", !.pc = "done",
                                             !.email = email, !.result = r.end]
                       ELSE [IdleProc EXCEPT !.op = "send_email_otp", !.pc = "otp_insert",
                                             !.email = email, !.otp = otp, !.fresh = TRUE]]
                /\ UNCHANGED <<ledger, expenses, groupName, members, userTable, now, issued, spent>>

\* send_email_otp, its second lock section and the e-mail: the passcode is
\* inserted for the address and sent; the request fails when the e-mail
\* cannot be sent.
SendOtpInsert(p) ==
    /\ proc[p].pc = "otp_insert"
    /\ LET q == proc[p]
           r == insert(hash_map, heap, q.email, q.otp, now)
       IN /\ hash_map' = r.hash_map
          /\ heap' = r.heap
          /\ lastAccess' = [lastAccess EXCEPT ![q.email] = now]
          /\ spent' = IF q.fresh THEN [spent EXCEPT ![q.email] = "none"] ELSE spent
          /\ \E result \in {"ok", "EmailFailed"} :
                proc' = [proc EXCEPT ![p] = [q EXCEPT !.pc = "done", !.result = result]]
    /\ UNCHANGED <<ledger, expenses, groupName, members, userTable, now, issued>>

\* create_tokens for the user of the address: access tokens for a user with
\* a name, a signup token otherwise.
TokenFor(email) == IF userTable[email] = "named" THEN "access" ELSE "signup"

\* The send_email_otp requests for the address that are between their two
\* lock sections started before this instant.
Overtaken(email) ==
    [p \in Procs |->
        IF proc[p].pc = "otp_insert" /\ proc[p].email = email
        THEN [proc[p] EXCEPT !.fresh = FALSE] ELSE proc[p]]

\* verify_otp: the guest account with its fixed passcode, or the passcode
\* the map holds for the address, which is removed when it matches.
VerifyOtp(p, emails, otps) ==
    \E email \in emails, otp \in otps :
        LET req == [IdleProc EXCEPT !.op = "verify_otp", !.pc = "done",
                                    !.email = email, !.otp = otp]
        IN /\ proc[p].pc = "idle"
           /\ IF email = Guest /\ otp = GuestOtp
              THEN /\ issued' = issued \cup {<<email, TokenFor(email)>>}
                   /\ proc' = [proc EXCEPT ![p] = [req EXCEPT !.result = "ok"]]
                   /\ UNCHANGED <<hash_map, heap, lastAccess, spent>>
              ELSE \E r \in get(hash_map, heap, email, now) :
                      IF r.end = "returned" /\ r.value = otp
                      THEN /\ hash_map' = remove(r.hash_map, r.heap, email).hash_map
                           /\ heap' = remove(r.hash_map, r.heap, email).heap
                           /\ lastAccess' = [lastAccess EXCEPT ![email] = now]
                           /\ spent' = [spent EXCEPT ![email] = otp]
                           /\ issued' = issued \cup {<<email, TokenFor(email)>>}
                           /\ proc' = [Overtaken(email) EXCEPT ![p] = [req EXCEPT !.result = "ok"]]
                      ELSE /\ hash_map' = r.hash_map
                           /\ heap' = r.heap
                           /\ lastAccess' = IF r.value # "none"
                                            THEN [lastAccess EXCEPT ![email] = now]
                                            ELSE lastAccess
                           /\ proc' = [proc EXCEPT ![p] =
                                  [req EXCEPT !.result = IF r.end = "returned"
                                                         THEN "OtpMismatch" ELSE r.end]]
                           /\ UNCHANGED <<issued, spent>>
           /\ UNCHANGED <<ledger, expenses, groupName, members, userTable, now>>

\* User::set_user_name: the UPDATE and the INSERT run in a transaction that
\* is dropped without commit; the function returns the updated row.
set_user_name(table, email) == DropTx(table, [table EXCEPT ![email] = "named"])

\* User::new_user: the user row, committed.
new_user(table, email) == [table EXCEPT ![email] = "named"]

\* signup with a signup token for the address: the row of the address gets
\* the name, or a new user is made; the caller gets access tokens.
Signup(p, emails) ==
    \E email \in emails :
        /\ proc[p].pc = "idle"
        /\ <<email, "signup">> \in issued
        /\ userTable' = IF userTable[email] # "absent" THEN set_user_name(userTable, email)
                        ELSE new_user(userTable, email)
        /\ issued' = issued \cup {<<email, "access">>}
        /\ proc' = [proc EXCEPT ![p] =
               [IdleProc EXCEPT !.op = "signup", !.pc = "done", !.email = email,
                                !.result = "ok"]]
        /\ UNCHANGED <<ledger, expenses, groupName, members, hash_map, heap, now, spent, lastAccess>>

\* Passcodes asked for and verified by two contexts at once, for one
\* address and the guest account, while the clock runs up to MaxOtpNow.
MaxOtpNow == 2

OtpEmails == {"u1", Guest}

NextOtp ==
    \/ \E p \in Procs :
          \/ SendOtpStart(p, OtpEmails, {1})
          \/ SendOtpInsert(p)
          \/ VerifyOtp(p, OtpEmails, SubmittedOtps)
          \/ Respond(p)
    \/ now < MaxOtpNow /\ Tick

SpecOtp == Init /\ [][NextOtp]_vars

\* Signing up: u1 has signed up and has a group; u2 and u3 have no user
\* row yet. u1 invites by e-mail, passcodes are sent and verified, and the
\* holder of a signup token signs up.
MaxAuthNow == 1

InitAuth ==
    /\ ledger = <<>>
    /\ expenses = <<>>
    /\ groupName = [g \in GroupIds |-> IF g = 1 THEN "named" ELSE "absent"]
    /\ members = [g \in GroupIds |-> IF g = 1 THEN {"u1"} ELSE {}]
    /\ proc = [p \in Procs |-> IdleProc]
    /\ userTable = [e \in Emails |-> IF e = "u1" THEN "named" ELSE "absent"]
    /\ hash_map = <<>>
    /\ heap = EmptyBag
    /\ now = 0
    /\ issued = {}
    /\ spent = [e \in Emails |-> "none"]
    /\ lastAccess = [e \in Emails |-> Never]

AuthEmails == {"u2", "u3"}

InviteInputs == {in \in AddToGroupInputs : in.user = "u1" /\ in.group_id = 1 /\ in.to_user = "u2"}

NextAuth ==
    \/ AddToGroupByEmail("p1", InviteInputs)
    \/ SendOtpStart("p1", AuthEmails, OtpNumbers)
    \/ SendOtpInsert("p1")
    \/ VerifyOtp("p1", AuthEmails, SubmittedOtps)
    \/ Signup("p1", AuthEmails)
    \/ Respond("p1")
    \/ now < MaxAuthNow /\ Tick

SpecAuth == InitAuth /\ [][NextAuth]_vars

\* ================================================================ properties
\* The rows of the ledger with a given part_transaction id or expense id.
RowsWithPart(ids) == {i \in DOMAIN ledger : ledger[i].part_transaction \in ids}

RowsWithExpense(id) == {i \in DOMAIN ledger : ledger[i].expense_id = id}

ExpensesWithId(id) == {i \in DOMAIN expenses : expenses[i].id = id}

PartsOf(rows) == {rows[i].part_transaction : i \in DOMAIN rows}

\* The sum of the amounts of the ledger rows from `from` to `to` in (g, c).
RawSum(from, to, g, c) ==
    SumFn([i \in DOMAIN ledger |->
             IF /\ ledger[i].from_user = from /\ ledger[i].to_user = to
                /\ ledger[i].group_id = g /\ ledger[i].currency_id = c
             THEN ledger[i].amount ELSE 0],
          DOMAIN ledger)

\* What b owes a in currency c over all groups, from the raw rows.
NetAcrossGroups(a, b, c, rows) ==
    SumFn([i \in DOMAIN rows |->
             IF rows[i].currency_id # c THEN 0
             ELSE IF rows[i].from_user = b /\ rows[i].to_user = a THEN rows[i].amount
             ELSE IF rows[i].from_user = a /\ rows[i].to_user = b THEN -rows[i].amount
             ELSE 0],
          DOMAIN rows)

\* Nothing of the request's is in either table.
WroteNothing(q) == Len(ledger) = q.rows0 /\ Len(expenses) = q.expenses0

\* C1: in every reachable ledger, for every two users a and b, group g and
\* currency c, the (g, c) amount get_owes_with_group reports for (a, b) is
\* the sum of the rows from b to a minus the sum of the rows from a to b.
C1_OwedIsSignedSum ==
    \A a \in Users : \A b \in Users \ {a} : \A g \in GroupIds : \A c \in Currencies :
        OwedAmount(a, b, g, c, ledger) = RawSum(b, a, g, c) - RawSum(a, b, g, c)

\* An expense share and a cash payment in opposite directions in one group
\* and currency, with a balance left between the two users.
C1_Witness ==
    \E a \in Users : \E b \in Users \ {a} : \E g \in GroupIds : \E c \in Currencies :
        /\ \E i \in DOMAIN ledger :
              /\ ledger[i].transaction_type = "ExpenseSplit"
              /\ <<ledger[i].from_user, ledger[i].to_user, ledger[i].group_id,
                   ledger[i].currency_id>> = <<b, a, g, c>>
        /\ \E i \in DOMAIN ledger :
              /\ ledger[i].transaction_type = "CashPaid"
              /\ <<ledger[i].from_user, ledger[i].to_user, ledger[i].group_id,
                   ledger[i].currency_id>> = <<a, b, g, c>>
        /\ OwedAmount(a, b, g, c, ledger) > 0

\* C2: the rows one netting pass commits leave, for every currency, the net
\* balance between its two users summed over all groups as it was, whatever
\* the other context committed since the pass read the balances.
C2_NettingConserves ==
    [][\A p \in Procs :
          (proc[p].pc = "net_insert" /\ proc'[p] # proc[p] /\ ledger' # ledger)
          => \A c \in Currencies :
                NetAcrossGroups(proc[p].self, Head(proc[p].netq), c, ledger')
                = NetAcrossGroups(proc[p].self, Head(proc[p].netq), c, ledger)]_vars

\* A direct netting call has committed its rows after rows the other
\* context committed while the call was under way.
C2_Witness ==
    \E p \in Procs :
        LET q == proc[p]
        IN /\ q.op = "simplify_cross_group" /\ q.pc = "done" /\ q.result = "ok"
           /\ q.out # <<>>
           /\ Len(ledger) > q.rows0 + Len(q.out)
           /\ SubSeq(ledger, Len(ledger) - Len(q.out) + 1, Len(ledger)) = q.out

\* C3: every ledger row has an amount greater than zero.
C3_AmountsPositive == \A i \in DOMAIN ledger : ledger[i].amount > 0

\* C4: a store error inside add_expense, a netting pass or a conversion
\* commits none of its rows, and no reachable state holds some but not all
\* of the rows of one expense, one netting pass or one conversion.
C4_AllOrNothing ==
    \A p \in Procs :
        LET q == proc[p]
            expenseRows == Cardinality(RowsWithExpense(q.expense_id))
            expenseHeads == Cardinality(ExpensesWithId(q.expense_id))
            planRows == Cardinality(RowsWithPart(PartsOf(q.plan)))
        IN /\ (q.op = "add_expense" /\ q.expense_id # NoId) =>
                /\ \/ expenseRows = 0 /\ expenseHeads = 0
                   \/ expenseRows = Len(q.splits) /\ expenseHeads = 1
                /\ q.pc \in {"expense_insert", "split_insert"}
                      => expenseRows = 0 /\ expenseHeads = 0
                /\ q.result = "StoreError" => expenseRows = 0 /\ expenseHeads = 0
           /\ (q.op # "auto_settle_with_user" /\ q.plan # <<>>) =>
                /\ planRows = 0 \/ planRows = Len(q.plan)
                /\ q.pc \in {"net_insert", "convert_insert"} => planRows = 0
                /\ (q.pc = "done" /\ q.tx # q.plan) => planRows = 0

\* A netting pass that failed after its first insert and before its last:
\* none of its rows is in the ledger.
C4_Witness ==
    \E p \in Procs :
        LET q == proc[p]
        IN /\ q.pc = "done" /\ q.op # "auto_settle_with_user"
           /\ Len(q.plan) >= 2 /\ Len(q.tx) >= 1 /\ Len(q.tx) < Len(q.plan)
           /\ \A i \in DOMAIN q.plan : q.plan[i].transaction_type = "CrossGroupSettlement"
           /\ RowsWithPart(PartsOf(q.plan)) = {}

\* C5: after a failure of auto_settle_with_user with an amount left to book
\* in the direct group, none of the legs of the call is committed.
C5_AutoSettleAllOrNothing ==
    \A p \in Procs :
        LET q == proc[p]
        IN (/\ q.op = "auto_settle_with_user" /\ q.pc = "done"
            /\ q.result = "StoreError" /\ q.remaining_amount > 0)
           => RowsWithPart({q.part_id}) = {}

\* C6: every step leaves the rows the ledger had, in place and unchanged.
C6_AppendOnly ==
    [][/\ Len(ledger') >= Len(ledger)
       /\ SubSeq(ledger', 1, Len(ledger)) = ledger]_vars

\* A ledger of expense shares and the netting rows written after them.
C6_Witness ==
    /\ Len(ledger) >= 4
    /\ \E i \in DOMAIN ledger : \E j \in DOMAIN ledger :
          /\ i < j
          /\ ledger[i].transaction_type = "ExpenseSplit"
          /\ ledger[j].transaction_type = "CrossGroupSettlement"

\* The ExpenseSplit row the contract gives a share of a committed expense.
ExpectedSplitRow(q, share) ==
    [expense_id |-> q.expense_id, group_id |-> q.group_id, amount |-> share.amount,
     currency_id |-> q.currency_id, from_user |-> share.user_id, to_user |-> q.self,
     transaction_type |-> "ExpenseSplit", part_transaction |-> NoId,
     created_by |-> q.self, with_group_id |-> NoGroup]

\* C7: a successful add_expense has written exactly one expense row and, for
\* each submitted share with amount > 0 and for no other, one ExpenseSplit
\* row from the share's user to the creator with the share's amount, the
\* expense's currency and group and the expense's id.
C7_ExpenseRows ==
    \A p \in Procs :
        LET q == proc[p]
            positive == SelectSeq(q.submitted, LAMBDA f : f.amount > 0)
            written == SelectSeq(ledger, LAMBDA r : r.expense_id = q.expense_id)
        IN (q.op = "add_expense" /\ q.result = "ok") =>
              /\ q.expense_id # NoId
              /\ Len(expenses) = q.expenses0 + 1
              /\ expenses[Len(expenses)] =
                    [id |-> q.expense_id, created_by |-> q.self, group_id |-> q.group_id,
                     amount |-> q.amount, currency_id |-> q.currency_id]
              /\ written = [i \in DOMAIN positive |-> ExpectedSplitRow(q, positive[i])]
              /\ SubSeq(ledger, q.rows0 + 1, q.rows0 + Len(positive)) = written
              /\ \A i \in DOMAIN ledger :
                    (i > q.rows0 /\ ledger[i].transaction_type = "ExpenseSplit")
                    => i <= q.rows0 + Len(positive)

\* Two shares of different amounts: exactly the two rows.
C7_Witness ==
    \E p \in Procs :
        LET q == proc[p]
        IN /\ q.op = "add_expense" /\ q.pc = "done" /\ q.result = "ok"
           /\ q.self = "u1" /\ q.group_id = 2
           /\ q.submitted = <<[user_id |-> "u2", amount |-> 2],
                              [user_id |-> "u3", amount |-> 1]>>
           /\ Cardinality(RowsWithExpense(q.expense_id)) = 2

\* C8: an add_expense with a share whose user is the creator fails and
\* writes no expense row and no ledger row.
C8_SelfShareRejected ==
    \A p \in Procs :
        LET q == proc[p]
        IN (q.op = "add_expense" /\ \E i \in DOMAIN q.submitted :
                                       q.submitted[i].user_id = q.self)
           => /\ q.pc = "done" /\ q.result = "SelfSplitNotAllowed"
              /\ q.expense_id = NoId /\ q.tx = <<>> /\ q.txe = <<>>
              /\ WroteNothing(q)

\* A zero share for the creator next to a valid share, rejected.
C8_Witness ==
    \E p \in Procs :
        LET q == proc[p]
        IN /\ q.op = "add_expense" /\ q.result = "SelfSplitNotAllowed"
           /\ q.amount > 0 /\ q.group_id = 1
           /\ q.submitted = <<[user_id |-> Other(q.self), amount |-> 2],
                              [user_id |-> q.self, amount |-> 0]>>
           /\ WroteNothing(q)

\* The request passes the checks add_expense makes before the membership
\* check.
PassesEarlierChecks(q) ==
    /\ \A i \in DOMAIN q.submitted : q.submitted[i].user_id # q.self
    /\ q.amount > 0
    /\ GroupExists(q.group_id)

\* C9 as stated: an add_expense with any share for a user who is not a
\* member of the group fails with the not-a-group-member error and writes
\* nothing.
C9_AnyNonMemberShareRejected ==
    \A p \in Procs :
        LET q == proc[p]
        IN (/\ q.op = "add_expense" /\ PassesEarlierChecks(q)
            /\ \E i \in DOMAIN q.submitted :
                  q.submitted[i].user_id \notin members[q.group_id])
           => /\ q.pc = "done" /\ q.result = "NotAGroupMember"
              /\ WroteNothing(q)

\* C9: an add_expense with a share of amount > 0 for a user who is not a
\* member of the group fails and writes nothing; the error is the
\* not-a-group-member error when the request passes the earlier checks.
C9_PositiveNonMemberShareRejected ==
    \A p \in Procs :
        LET q == proc[p]
        IN (/\ q.op = "add_expense"
            /\ \E i \in DOMAIN q.submitted :
                  /\ q.submitted[i].amount > 0
                  /\ q.submitted[i].user_id \notin members[q.group_id])
           => /\ q.pc = "done"
              /\ q.result \in {"SelfSplitNotAllowed", "InvalidAmount", "NotFound",
                               "NotAGroupMember"}
              /\ PassesEarlierChecks(q) => q.result = "NotAGroupMember"
              /\ q.expense_id = NoId /\ WroteNothing(q)

\* A positive share for a user outside the group next to a member's share.
C9_Witness ==
    \E p \in Procs :
        LET q == proc[p]
        IN /\ q.op = "add_expense" /\ q.result = "NotAGroupMember"
           /\ q.group_id = 1
           /\ q.submitted = <<[user_id |-> Other(q.self), amount |-> 1],
                              [user_id |-> "u3", amount |-> 1]>>
           /\ WroteNothing(q)

\* The rows a committed settle_in_group has added to the ledger, its own
\* netting rows apart.
CashRowsOf(q) ==
    SelectSeq(SubSeq(ledger, q.rows0 + 1, Len(ledger)),
              LAMBDA r : r.transaction_type = "CashPaid")

\* C10 as stated: a successful settle_in_group has added one CashPaid row
\* from the payer (the caller) to the payee, and both are members.
C10_RowFromPayerToPayee ==
    \A p \in Procs :
        LET q == proc[p]
        IN (q.op = "settle_in_group" /\ q.result = "ok") =>
              /\ Len(CashRowsOf(q)) = 1
              /\ CashRowsOf(q)[1].from_user = q.self
              /\ CashRowsOf(q)[1].to_user = q.with_user
              /\ {q.self, q.with_user} \subseteq members[q.group_id]

\* C10: a successful settle_in_group has added exactly one CashPaid row, in
\* the group and currency given and with the amount given, from the payee
\* to the payer (the caller), and both are members of the group.
C10_RowFromPayeeToPayer ==
    \A p \in Procs :
        LET q == proc[p]
        IN (q.op = "settle_in_group" /\ q.result = "ok") =>
              /\ CashRowsOf(q) =
                    <<[expense_id |-> NoId, group_id |-> q.group_id,
                       amount |-> q.amount, currency_id |-> q.currency_id,
                       from_user |-> q.with_user, to_user |-> q.self,
                       transaction_type |-> "CashPaid", part_transaction |-> NoId,
                       created_by |-> q.self, with_group_id |-> NoGroup]>>
              /\ ledger[q.rows0 + 1] = CashRowsOf(q)[1]
              /\ {q.self, q.with_user} \subseteq members[q.group_id]

\* A payment of 1 booked against an expense share the payer owed.
C10_Witness ==
    \E p \in Procs :
        LET q == proc[p]
        IN /\ q.op = "settle_in_group" /\ q.pc = "done" /\ q.result = "ok"
           /\ q.amount = 1
           /\ Len(ledger) = q.rows0 + 1
           /\ \E i \in DOMAIN ledger :
                 /\ ledger[i].transaction_type = "ExpenseSplit"
                 /\ ledger[i].from_user = q.self /\ ledger[i].to_user = q.with_user
                 /\ ledger[i].group_id = q.group_id

\* What the caller of an auto_settle_with_user owed with_user in group g and
\* the call's currency when the call arrived.
Debt(q, g) ==
    OwedAmount(q.with_user, q.self, g, q.currency_id, SubSeq(ledger, 1, q.rows0))

OwedGroups(q) == {g \in GroupIds : Debt(q, g) > 0}

TotalDebt(q) == SumFn([g \in OwedGroups(q) |-> Debt(q, g)], OwedGroups(q))

\* The ledger rows carrying the call's part_transaction id, oldest first.
AutoRows(q) == SelectSeq(ledger, LAMBDA r : r.part_transaction = q.part_id)

SumAmounts(rows) == SumFn([i \in DOMAIN rows |-> rows[i].amount], DOMAIN rows)

\* The first transaction of the call is committed and no leftover leg is.
LegsCommitted(q) ==
    /\ q.op = "auto_settle_with_user"
    /\ \/ q.pc \in {"auto_find", "auto_create", "auto_add", "auto_leftover"}
       \/ q.result = "ok" /\ q.remaining_amount <= 0

\* C11: the legs of auto_settle_with_user are CashPaid rows in the call's
\* currency, one per visited group, each in a group where the payer owed the
\* payee; the groups are visited in descending order of debt, each leg is
\* min(amount still left, debt in the group), and groups are left out only
\* once the amount is used up.
C11_LegsLargestDebtFirst ==
    \A p \in Procs :
        LET q == proc[p]
            L == AutoRows(q)
            visited == {L[i].group_id : i \in DOMAIN L}
        IN LegsCommitted(q) =>
              /\ \A i \in DOMAIN L :
                    /\ L[i].transaction_type = "CashPaid"
                    /\ L[i].currency_id = q.currency_id
                    /\ L[i].group_id \in OwedGroups(q)
                    /\ L[i].amount = Min(q.amount - SumAmounts(SubSeq(L, 1, i - 1)),
                                         Debt(q, L[i].group_id))
                    /\ L[i].amount > 0
                    /\ \A j \in DOMAIN L :
                          i < j => /\ L[i].group_id # L[j].group_id
                                   /\ Debt(q, L[i].group_id) >= Debt(q, L[j].group_id)
                    /\ \A g \in OwedGroups(q) \ visited :
                          Debt(q, L[i].group_id) >= Debt(q, g)
              /\ OwedGroups(q) \ visited # {} => SumAmounts(L) >= q.amount
              /\ q.amount <= 0 => L = <<>>

\* Debts of 3 and 2 in two groups and a payment of 4: a leg of 3, a leg of 1
\* and nothing else.
C11_Witness ==
    \E p \in Procs :
        LET q == proc[p]
            L == AutoRows(q)
        IN /\ q.op = "auto_settle_with_user" /\ q.pc = "done" /\ q.result = "ok"
           /\ q.amount = 4
           /\ {Debt(q, g) : g \in OwedGroups(q)} = {3, 2}
           /\ Len(L) = 2 /\ L[1].amount = 3 /\ L[2].amount = 1
           /\ Debt(q, L[1].group_id) = 3 /\ Debt(q, L[2].group_id) = 2
           /\ Len(ledger) = q.rows0 + 2

\* C12: a successful auto_settle_with_user with an amount above the total
\* the payer owed has settled every owed group in full and written exactly
\* one more leg, for the excess, from the payee to the payer in an unnamed
\* group whose members are exactly the payer and the payee.
C12_ExcessInDirectGroup ==
    \A p \in Procs :
        LET q == proc[p]
            L == AutoRows(q)
            n == Cardinality(OwedGroups(q))
        IN (/\ q.op = "auto_settle_with_user" /\ q.result = "ok"
            /\ q.amount > TotalDebt(q))
           => /\ Len(L) = n + 1
              /\ \A g \in OwedGroups(q) :
                    \E i \in 1..n : L[i].group_id = g /\ L[i].amount = Debt(q, g)
              /\ L[n + 1].amount = q.amount - TotalDebt(q)
              /\ L[n + 1].transaction_type = "CashPaid"
              /\ L[n + 1].currency_id = q.currency_id
              /\ L[n + 1].from_user = q.with_user /\ L[n + 1].to_user = q.self
              /\ groupName[L[n + 1].group_id] = "unnamed"
              /\ members[L[n + 1].group_id] = {q.self, q.with_user}

\* The step in which find_group_for_users returns a group to the handler of
\* context p.
FindReturnsGroup(p) ==
    \/ proc[p].pc = "auto_find" /\ proc'[p].pc = "auto_leftover"
    \/ proc[p].pc = "ng_find" /\ proc'[p].pc = "ng_expense"

\* The unnamed groups whose members are exactly the users of the list.
ExactDirectGroups(users) ==
    {g \in GroupIds : groupName[g] = "unnamed" /\ members[g] = Range(users)}

\* C13: the group find_group_for_users returns is unnamed and its members
\* are exactly the users it was called with.
C13_FoundGroupIsExact ==
    [][\A p \in Procs :
          FindReturnsGroup(p) => proc'[p].group_id \in ExactDirectGroups(UserIds(proc[p]))]_vars

\* C14: find_group_for_users returns a group only when exactly one unnamed
\* group has exactly the users of the list as members; with two or more it
\* returns none.
C14_FoundOnlyWhenUnique ==
    [][\A p \in Procs :
          FindReturnsGroup(p) => Cardinality(ExactDirectGroups(UserIds(proc[p]))) <= 1]_vars

\* The pairings of a simplify pass as its rows show them: rows 2i-1 and 2i
\* of `rows` are the i-th pairing.
PairCount(rows) == Len(rows) \div 2

\* What the pairings before the i-th have already settled against group g in
\* currency c.
SettledBefore(rows, i, g, c) ==
    SumFn([j \in 1..(i - 1) |->
             IF rows[2 * j - 1].currency_id = c /\ g \in {rows[2 * j - 1].group_id, rows[2 * j].group_id}
             THEN rows[2 * j - 1].amount ELSE 0], 1..(i - 1))

\* The i-th pairing of the pass of a with b over the balances of `read`: two
\* CrossGroupSettlement rows of one amount and one currency, the first in a
\* group where b owes a, from a to b, the second in a group where a owes b,
\* from b to a, each naming the other's group; the amount is the smaller of
\* what is left of the two balances; the first row lowers what b owes a in
\* its group by the amount, the second lowers what a owes b in its group.
PairingAsSpecified(rows, i, a, b, read) ==
    LET pos == rows[2 * i - 1]
        neg == rows[2 * i]
        c == pos.currency_id
        remaining_positive == OwedAmount(a, b, pos.group_id, c, read)
                              - SettledBefore(rows, i, pos.group_id, c)
        remaining_negative == Abs(OwedAmount(a, b, neg.group_id, c, read))
                              - SettledBefore(rows, i, neg.group_id, c)
    IN /\ pos.transaction_type = "CrossGroupSettlement"
       /\ neg.transaction_type = "CrossGroupSettlement"
       /\ neg.currency_id = c
       /\ neg.amount = pos.amount
       /\ OwedAmount(a, b, pos.group_id, c, read) > 0
       /\ OwedAmount(a, b, neg.group_id, c, read) < 0
       /\ pos.from_user = a /\ pos.to_user = b /\ pos.with_group_id = neg.group_id
       /\ neg.from_user = b /\ neg.to_user = a /\ neg.with_group_id = pos.group_id
       /\ pos.amount = Min(remaining_positive, remaining_negative)
       /\ OwedAmount(a, b, pos.group_id, c, read \o <<pos>>)
            = OwedAmount(a, b, pos.group_id, c, read) - pos.amount
       /\ OwedAmount(a, b, neg.group_id, c, read \o <<neg>>)
            = OwedAmount(a, b, neg.group_id, c, read) + neg.amount

\* C15: the rows simplify_cross_group(a, b) works out from the balances it
\* read come in pairs, one pair per pairing, each pair as specified; and the
\* commit of the pass appends exactly these rows to the ledger.
C15_PairingRows ==
    [][\A p \in Procs :
          /\ (proc[p].pc = "net_read" /\ proc'[p].pc = "net_insert") =>
                LET rows == proc'[p].plan
                IN /\ Len(rows) = 2 * PairCount(rows)
                   /\ \A i \in 1..PairCount(rows) :
                         PairingAsSpecified(rows, i, proc[p].self, Head(proc[p].netq), ledger)
          /\ (proc[p].pc = "net_insert" /\ proc'[p].pc # "net_insert") =>
                ledger' \in {ledger, ledger \o proc[p].plan}]_vars

\* A pass has committed a pairing: its two rows are in the ledger.
C15_Witness ==
    \E n \in 1..Len(ledger) - 1 :
        /\ ledger[n].transaction_type = "CrossGroupSettlement"
        /\ ledger[n + 1].transaction_type = "CrossGroupSettlement"
        /\ ledger[n].part_transaction = ledger[n + 1].part_transaction
        /\ ledger[n].with_group_id = ledger[n + 1].group_id
        /\ ledger[n + 1].with_group_id = ledger[n].group_id

\* The positions of the ledger rows that carry part_transaction id.
RowsOfPart(id) == {n \in DOMAIN ledger : ledger[n].part_transaction = id}

\* C16: every part_transaction id of a CrossGroupSettlement row is carried
\* by exactly two rows, the two offsetting rows of one pairing: one names
\* the other's group, in the opposite direction.
C16_PartIdPerPairing ==
    \A n \in DOMAIN ledger :
        ledger[n].transaction_type = "CrossGroupSettlement" =>
            /\ Cardinality(RowsOfPart(ledger[n].part_transaction)) = 2
            /\ \A m \in RowsOfPart(ledger[n].part_transaction) \ {n} :
                  /\ ledger[m].transaction_type = "CrossGroupSettlement"
                  /\ ledger[m].group_id = ledger[n].with_group_id
                  /\ ledger[m].with_group_id = ledger[n].group_id
                  /\ ledger[m].from_user = ledger[n].to_user

\* The last write to the ledger was a netting pass between a and b that
\* emitted rows: its last row ends the ledger.
LastWriteWasPass(a, b) ==
    /\ ledger # <<>>
    /\ ledger[Len(ledger)].transaction_type = "CrossGroupSettlement"
    /\ {ledger[Len(ledger)].from_user, ledger[Len(ledger)].to_user} = {a, b}

\* The step in which a pass of context p has read the balances and worked
\* out its rows.
PassWorkedOut(p) == proc[p].pc = "net_read" /\ proc'[p].pc = "net_insert"

\* C17 as stated: a pass between a and b that runs right after a pass
\* between them that emitted rows, with no write in between, emits new rows
\* again.
C17_SecondRunEmitsRows ==
    [][\A p \in Procs :
          (PassWorkedOut(p) /\ LastWriteWasPass(proc[p].self, Head(proc[p].netq)))
          => proc'[p].plan # <<>>]_vars

\* C17 as the code has it: a pass between a and b that runs right after a
\* pass between them that emitted rows, with no write in between, finds
\* nothing to pair and emits no row; and no pass changes what the two users
\* owe each other in any currency over all groups.
C17_SecondRunEmitsNothing ==
    [][\A p \in Procs :
          /\ (PassWorkedOut(p) /\ LastWriteWasPass(proc[p].self, Head(proc[p].netq)))
             => proc'[p].plan = <<>>
          /\ (proc[p].pc = "net_insert" /\ proc'[p].pc # "net_insert")
             => \A c \in Currencies :
                   NetAcrossGroups(proc[p].self, Head(proc[p].netq), c, ledger')
                   = NetAcrossGroups(proc[p].self, Head(proc[p].netq), c, ledger)]_vars

\* A direct simplify_cross_group call has run right after a pass that
\* emitted rows and has returned an empty list.
C17_Witness ==
    \E p \in Procs :
        /\ proc[p].op = "simplify_cross_group" /\ proc[p].pc = "done"
        /\ proc[p].result = "ok" /\ proc[p].out = <<>>
        /\ Len(ledger) = proc[p].rows0
        /\ LastWriteWasPass(proc[p].self, proc[p].with_user)

\* What a owes b in group g and currency c, from the raw rows of the ledger.
RawNet(a, b, g, c) == RawSum(a, b, g, c) - RawSum(b, a, g, c)

\* The step in which context p takes a convert_currency call and reads the
\* balance.
ConvertCalled(p) == proc[p].pc = "idle" /\ proc'[p].op = "convert_currency"

\* C18: a convert_currency call for two users, a group and a from_currency
\* whose net balance is zero returns an empty list at once: it writes no
\* row, starts no netting pass and leaves the ledger as it was.
C18_ZeroBalanceNoWrite ==
    [][\A p \in Procs :
          (/\ ConvertCalled(p)
           /\ RawNet(proc'[p].self, proc'[p].with_user, proc'[p].group_id,
                     proc'[p].currency_id) = 0)
          => /\ proc'[p].pc = "done" /\ proc'[p].result = "ok"
             /\ proc'[p].out = <<>> /\ proc'[p].plan = <<>> /\ proc'[p].netq = <<>>
             /\ ledger' = ledger /\ expenses' = expenses]_vars

\* A convert_currency call has returned an empty list for a currency with
\* a zero balance, in a group where the two users have a balance in the
\* other currency.
C18_Witness ==
    \E p \in Procs :
        LET q == proc[p]
        IN /\ q.op = "convert_currency" /\ q.pc = "done" /\ q.result = "ok"
           /\ q.out = <<>>
           /\ RawNet(q.self, q.with_user, q.group_id, q.currency_id) = 0
           /\ RawNet(q.self, q.with_user, q.group_id, q.to_currency_id) # 0
           /\ Len(ledger) = q.rows0

\* The step in which the conversion of context p commits its rows.
ConvertCommits(p) ==
    proc[p].op = "convert_currency" /\ proc[p].pc = "convert_insert" /\ ledger' # ledger

\* t is the real number num / den (den > 0, num >= 0) truncated to an integer.
IsTruncation(t, num, den) == t * den <= num /\ num < (t + 1) * den

\* |balance| * 10^(to_decimals - from_decimals) / from_rate * to_rate as a
\* fraction: its numerator and its denominator.
ConvertedNum(balance, from, to) ==
    Abs(balance) * from.rate_den * to.rate_num
    * (IF to.decimals >= from.decimals THEN Pow10(to.decimals - from.decimals) ELSE 1)

ConvertedDen(from, to) ==
    from.rate_num * to.rate_den
    * (IF to.decimals >= from.decimals THEN 1 ELSE Pow10(from.decimals - to.decimals))

\* C19: the amount of the to_currency row a conversion commits is
\* |balance| * 10^(to_decimals - from_decimals) / from_rate * to_rate
\* truncated to an integer, for the balance of the two users in the group
\* and from_currency and the rates and decimals of the currency table; a
\* balance of 500 from decimals 2, rate 1.0 to decimals 0, rate 80.0 gives 400.
C19_ToAmount ==
    [][\A p \in Procs :
          ConvertCommits(p) =>
             LET q == proc[p]
                 balance == RawNet(q.self, q.with_user, q.group_id, q.currency_id)
                 from == CurrencyTable[q.currency_id]
                 to == CurrencyTable[q.to_currency_id]
                 forw == ledger'[Len(ledger')]
             IN /\ forw.currency_id = q.to_currency_id
                /\ IsTruncation(forw.amount, ConvertedNum(balance, from, to),
                                ConvertedDen(from, to))
                /\ (/\ Abs(balance) = 500
                    /\ from.decimals = 2 /\ from.rate_num = 1 /\ from.rate_den = 1
                    /\ to.decimals = 0 /\ to.rate_num = 80 /\ to.rate_den = 1)
                   => forw.amount = 400]_vars

\* A conversion of a balance of 500 from USD (decimals 2, rate 1.0) to JPY
\* (decimals 0, rate 80.0) has returned its two rows, the second of 400.
C19_Witness ==
    \E p \in Procs :
        LET q == proc[p]
        IN /\ q.op = "convert_currency" /\ q.result = "ok" /\ Len(q.out) = 2
           /\ q.currency_id = "USD" /\ q.to_currency_id = "JPY"
           /\ q.out[1].amount = 500 /\ q.out[2].amount = 400
           /\ \E n \in DOMAIN ledger : ledger[n] = q.out[2]

TriggeringOps ==
    {"add_expense", "add_non_group_expense", "settle_in_group", "auto_settle_with_user",
     "convert_currency"}

\* Every row of `rows` is a row of the ledger `L`.
AllIn(rows, L) == \A i \in DOMAIN rows : \E n \in DOMAIN L : L[n] = rows[i]

\* C21: once a handler has committed its rows and is in its netting calls,
\* no step of the request, a failing netting pass and a failing notification
\* included, changes its result from ok, changes the rows it returns or
\* removes or changes a committed row; and a request whose notification
\* failed has returned ok with its rows in the ledger.
C21_PostCommitFailuresSwallowed ==
    [][\A p \in Procs :
          /\ (proc[p].op \in TriggeringOps /\ proc[p].pc \in {"net_read", "net_insert"})
             => /\ proc'[p].result = "ok"
                /\ proc'[p].out = proc[p].out
                /\ Len(ledger') >= Len(ledger)
                /\ SubSeq(ledger', 1, Len(ledger)) = ledger
                /\ AllIn(proc'[p].out, ledger')
          /\ proc'[p].notify = "failed"
             => proc'[p].result = "ok" /\ AllIn(proc'[p].out, ledger')]_vars

\* A payment has returned ok although its notification failed and its
\* netting pass failed too: the payer's groups still hold balances of
\* opposite sign with the payee.
C21_Witness ==
    \E p \in Procs :
        LET q == proc[p]
        IN /\ q.op = "settle_in_group" /\ q.pc = "done" /\ q.result = "ok"
           /\ q.notify = "failed" /\ q.out # <<>> /\ AllIn(q.out, ledger)
           /\ \E g, h \in GroupIds :
                 /\ RawNet(q.self, q.with_user, g, q.currency_id) > 0
                 /\ RawNet(q.self, q.with_user, h, q.currency_id) < 0

\* The expense of request q is a row of the expenses table.
ExpenseCommitted(q) == \E n \in DOMAIN expenses : expenses[n].id = q.expense_id

\* C22: a request whose receipt image has been moved to permanent storage
\* and that has returned has committed its expense: no request moves the
\* image and then returns without its transaction committed.
C22_ImageMovedOnlyIfCommitted ==
    \A p \in Procs :
        (proc[p].image = "moved" /\ proc[p].pc = "done")
        => proc[p].result = "ok" /\ ExpenseCommitted(proc[p])

\* C23: for every two users, no entry of get_owes_with_group has the
\* amount 0: a group and currency whose rows between the two net to zero
\* has no entry in the result.
C23_NoZeroEntry ==
    \A a, b \in Users :
        \A o \in get_owes_with_group(a, b, ledger) : o.amount # 0

\* The errors of add_expense's checks of the submitted total and shares.
ValidationErrors == {"SelfSplitNotAllowed", "InvalidAmount", "NotAGroupMember"}

\* C24: an expense submission, through add_expense or add_non_group_expense,
\* that has returned a validation error has written nothing: the expenses,
\* ledger, groups and group_memberships tables have the rows they had when
\* the request arrived.
C24_RejectedWritesNothing ==
    \A p \in Procs :
        LET q == proc[p]
        IN (/\ q.op \in {"add_expense", "add_non_group_expense"}
            /\ q.pc = "done" /\ q.result \in ValidationErrors)
           => /\ WroteNothing(q)
              /\ GroupCount = q.groups0
              /\ MembershipCount = q.members0

\* The negative's group and the positive's group of the i-th pairing.
NegativeOf(rows, i) == rows[2 * i].group_id

PositiveOf(rows, i) == rows[2 * i - 1].group_id

CurrencyOf(rows, i) == rows[2 * i - 1].currency_id

\* The cursor over the negatives, as the pairings of a pass of a with b
\* over the balances of `read` show it.
SharedCursor(rows, a, b, read) ==
    LET n == PairCount(rows)
        Left(i, g) == Abs(OwedAmount(a, b, g, CurrencyOf(rows, i), read))
                      - SettledBefore(rows, i + 1, g, CurrencyOf(rows, i))
    IN \* nothing is settled beyond the balance read, for any group
       /\ \A i \in 1..n : Left(i, PositiveOf(rows, i)) >= 0 /\ Left(i, NegativeOf(rows, i)) >= 0
       \* a negative used up is not paired again
       /\ \A i, j \in 1..n :
             (/\ i < j /\ CurrencyOf(rows, i) = CurrencyOf(rows, j)
              /\ Left(i, NegativeOf(rows, i)) = 0)
             => NegativeOf(rows, j) # NegativeOf(rows, i)
       \* a negative not used up goes on to the next positive with what is left
       /\ \A i \in 1..(n - 1) :
             (/\ CurrencyOf(rows, i) = CurrencyOf(rows, i + 1)
              /\ Left(i, NegativeOf(rows, i)) > 0)
             => /\ NegativeOf(rows, i + 1) = NegativeOf(rows, i)
                /\ PositiveOf(rows, i + 1) # PositiveOf(rows, i)
                /\ rows[2 * i + 1].amount <= Left(i, NegativeOf(rows, i))
       \* the cursor never goes back to a negative it has left
       /\ \A i, j, k \in 1..n :
             (/\ i < j /\ j < k /\ CurrencyOf(rows, i) = CurrencyOf(rows, k)
              /\ NegativeOf(rows, i) = NegativeOf(rows, k))
             => NegativeOf(rows, j) = NegativeOf(rows, i)

\* C25: in every pass the negatives of a bucket are drawn through one
\* cursor shared by the positives: a negative partly used goes on to the
\* next positive with what is left of it, a negative used up is never
\* paired again, and what is settled against a group never exceeds the
\* absolute value of the balance the pass read for it.
C25_SharedCursor ==
    [][\A p \in Procs :
          PassWorkedOut(p)
          => SharedCursor(proc'[p].plan, proc[p].self, Head(proc[p].netq), ledger)]_vars

\* A pass has committed two pairings that draw from one negative: its
\* four rows end the ledger, the second and the fourth in the same group.
C25_Witness ==
    /\ Len(ledger) >= 4
    /\ LET n == Len(ledger)
       IN /\ \A i \in (n - 3)..n : ledger[i].transaction_type = "CrossGroupSettlement"
          /\ ledger[n - 2].group_id = ledger[n].group_id
          /\ ledger[n - 3].group_id # ledger[n - 1].group_id
          /\ ledger[n - 2].with_group_id = ledger[n - 3].group_id
          /\ ledger[n].with_group_id = ledger[n - 1].group_id
          /\ ledger[n].amount > 0 /\ ledger[n - 2].amount > 0

\* C26: no pass makes a pairing for a positive that has nothing left: every
\* pairing of a pass finds its positive with a remainder above zero, and
\* its two rows have an amount above zero.
C26_NoZeroPairing ==
    [][\A p \in Procs :
          PassWorkedOut(p)
          => LET rows == proc'[p].plan
                 a == proc[p].self
                 b == Head(proc[p].netq)
             IN \A i \in 1..PairCount(rows) :
                   /\ OwedAmount(a, b, PositiveOf(rows, i), CurrencyOf(rows, i), ledger)
                      - SettledBefore(rows, i, PositiveOf(rows, i), CurrencyOf(rows, i)) > 0
                   /\ rows[2 * i - 1].amount > 0 /\ rows[2 * i].amount > 0]_vars

\* The legs of the call in the groups where the payer owed: all rows of the
\* call but the leftover leg, which is the last when the amount was above
\* the total owed.
GroupLegs(q) ==
    LET L == AutoRows(q)
    IN IF q.amount > TotalDebt(q) /\ L # <<>> THEN SubSeq(L, 1, Len(L) - 1) ELSE L

\* C27: a successful auto_settle_with_user with amount > 0 has written legs
\* whose amounts sum to exactly amount, none of the legs in the owed groups
\* above what the payer owed in its group when the call read the balances;
\* a call with amount <= 0 has written no leg.
C27_LegsSumToAmount ==
    \A p \in Procs :
        LET q == proc[p]
            L == AutoRows(q)
            G == GroupLegs(q)
        IN (q.op = "auto_settle_with_user" /\ q.pc = "done" /\ q.result = "ok")
           => /\ q.amount > 0 =>
                    /\ SumAmounts(L) = q.amount
                    /\ \A i \in DOMAIN G : G[i].amount <= Debt(q, G[i].group_id)
              /\ q.amount <= 0 =>
                    /\ L = <<>>
                    /\ q.out = <<>>
                    /\ \A n \in (q.rows0 + 1)..Len(ledger) :
                          ledger[n].transaction_type # "CashPaid"

\* A payment of 4 against a debt of 3 in one group: a leg of 3 and a
\* leftover leg of 1.
C27_Witness ==
    \E p \in Procs :
        LET q == proc[p]
            L == AutoRows(q)
        IN /\ q.op = "auto_settle_with_user" /\ q.pc = "done" /\ q.result = "ok"
           /\ q.amount = 4 /\ TotalDebt(q) = 3
           /\ Len(L) = 2 /\ L[1].amount = 3 /\ L[2].amount = 1

\* The step in which the settle_in_group of context p commits its row.
SettleCommits(p) ==
    proc[p].op = "settle_in_group" /\ proc[p].pc = "settle_commit" /\ ledger' # ledger

PassCommits(p) ==
    /\ proc[p].pc = "net_insert" /\ proc'[p].pc # "net_insert"
    /\ Len(proc[p].tx) = Len(proc[p].plan)
    /\ ledger' = ledger \o proc[p].plan

\* Two groups hold balances of opposite sign between a and b in currency c,
\* in the rows given.
OppositeSigns(a, b, c, rows) ==
    \E g, h \in GroupIds :
        OwedAmount(a, b, g, c, rows) > 0 /\ OwedAmount(a, b, h, c, rows) < 0

\* C29: with one context, so that nothing is written between a pass's read
\* and its commit, the commit of a pass between a and b leaves no currency
\* in which two groups hold balances of opposite sign between them, and a
\* pass over the balances it leaves has nothing to pair.
C29_NoOppositeSignsLeft ==
    [][\A p \in Procs :
          PassCommits(p)
          => LET a == proc[p].self
                 b == Head(proc[p].netq)
             IN /\ \A c \in Currencies : ~OppositeSigns(a, b, c, ledger')
                /\ \A owes \in Orderings(get_owes_with_group(a, b, ledger')) :
                      \A c \in Currencies :
                         BucketPairings(SelectSeq(owes, LAMBDA ow : ow.currency_id = c))
                         = <<>>]_vars

\* A pass has committed and left a debt: the last write was a pass, one
\* group still holds a balance between the two users and another holds none.
C29_Witness ==
    /\ LastWriteWasPass("u1", "u2")
    /\ \E g, h \in GroupIds :
          /\ RawNet("u1", "u2", g, "USD") # 0
          /\ RawNet("u1", "u2", h, "USD") = 0
          /\ \E n \in DOMAIN ledger : ledger[n].group_id = h
    /\ ~OppositeSigns("u1", "u2", "USD", ledger)

\* The step in which a pass of context p commits rows.
PassWrites(p) ==
    /\ proc[p].pc = "net_insert" /\ proc'[p].pc # "net_insert"
    /\ proc[p].tx # <<>>
    /\ ledger' = ledger \o proc[p].tx

\* C30: whatever the interleaving of two passes between the same two users,
\* the rows a pass commits never carry the balance between them in a group
\* and currency across zero: a balance that was positive is not negative
\* afterwards, and one that was negative is not positive.
C30_NettingNeverOvershoots ==
    [][\A p \in Procs :
          PassWrites(p)
          => LET a == proc[p].self
                 b == Head(proc[p].netq)
             IN \A g \in GroupIds, c \in Currencies :
                   /\ OwedAmount(a, b, g, c, ledger) >= 0
                      => OwedAmount(a, b, g, c, ledger') >= 0
                   /\ OwedAmount(a, b, g, c, ledger) <= 0
                      => OwedAmount(a, b, g, c, ledger') <= 0]_vars

\* C31: no two unnamed groups have the same members.
C31_OneDirectGroupPerSet ==
    \A g, h \in GroupIds :
        (g # h /\ groupName[g] = "unnamed" /\ groupName[h] = "unnamed")
        => members[g] # members[h]

\* Context p is adding the members of the unnamed group it has just created.
AddingMembers(p) == proc[p].pc \in {"ng_add", "auto_add"}

\* C32: the members of an unnamed group are the users it was created for:
\* only the request that created the group adds members to it, and when
\* that request is through with its adds, whether they succeeded or not,
\* the group's members are exactly the users the request looked a group up
\* for.
C32_DirectMembersFixed ==
    [][/\ \A g \in GroupIds :
             (groupName[g] = "unnamed" /\ members'[g] # members[g])
             => \E p \in Procs : AddingMembers(p) /\ proc[p].group_id = g
       /\ \A p \in Procs :
             (AddingMembers(p) /\ ~AddingMembers(p)')
             => members'[proc[p].group_id] = Range(UserIds(proc[p]))]_vars

\* C33: every row a step adds to the ledger runs between two members of
\* the row's group.
C33_RowsBetweenMembers ==
    [][\A n \in (Len(ledger) + 1)..Len(ledger') :
          /\ ledger'[n].from_user \in members'[ledger'[n].group_id]
          /\ ledger'[n].to_user \in members'[ledger'[n].group_id]]_vars

\* The sum of the ExpenseSplit rows booked for the expense with the id.
SharesOf(id) ==
    SumFn([n \in DOMAIN ledger |->
             IF ledger[n].expense_id = id /\ ledger[n].transaction_type = "ExpenseSplit"
             THEN ledger[n].amount ELSE 0], DOMAIN ledger)

\* C34: the shares booked for an expense add up to at most its amount.
C34_SharesWithinAmount ==
    \A i \in DOMAIN expenses : SharesOf(expenses[i].id) <= expenses[i].amount

\* The key was last inserted or successfully got less than Duration before t.
Live(k, t) == lastAccess[k] # Never /\ t - lastAccess[k] < Duration

\* The key's last insert or successful get is at least Duration before t.
Expired(k, t) == lastAccess[k] # Never /\ t - lastAccess[k] >= Duration

\* C37: a get of k ends without a panic and without looping, returns a
\* value exactly when k was last inserted or successfully got less than
\* Duration ago, and leaves no key in the map whose last access is at least
\* Duration old; a cleanup likewise ends and leaves no such key.
C37_ExpiresAfterDuration ==
    [][/\ \A k \in MapKeys :
             GetCall("p1", {k})
             => /\ proc'["p1"].result = "ok"
                /\ proc'["p1"].otp # "none" <=> Live(k, now)
                /\ \A j \in MapKeys : Expired(j, now) => j \notin DOMAIN hash_map'
       /\ CleanupCall("p1")
          => /\ proc'["p1"].result = "ok"
             /\ \A j \in MapKeys : Expired(j, now) => j \notin DOMAIN hash_map']_vars

\* A get has returned the value of a key that was accessed again after its
\* insert, so that its heap entry was re-added, and another key has expired
\* and been removed.
C37_Witness ==
    /\ proc["p1"].op = "get" /\ proc["p1"].otp # "none"
    /\ proc["p1"].email \in DOMAIN hash_map
    /\ \E e \in BagToSet(heap) :
          /\ e.key = proc["p1"].email
          /\ e.instant >= Duration
          /\ e.instant < hash_map[e.key].instant
    /\ \E j \in MapKeys : lastAccess[j] # Never /\ j \notin DOMAIN hash_map

\* C36: a passcode verify_otp has accepted for an address other than the
\* guest account is not accepted for it again, unless a send_email_otp
\* request that started after the acceptance has inserted it anew.
C36_PasscodeSingleUse ==
    [][\A p \in Procs, email \in Emails \ {Guest}, otp \in SubmittedOtps :
          (VerifyOtp(p, {email}, {otp}) /\ proc'[p].result = "ok")
          => spent[email] # otp]_vars

\* C35: when signup returns success for an address, the user of the address
\* has a name, and a user that has a name keeps it.
C35_SignupNamesUser ==
    [][/\ \A p \in Procs, email \in Emails :
             (Signup(p, {email}) /\ proc'[p].result = "ok")
             => userTable'[email] = "named"
       /\ \A email \in Emails :
             userTable[email] = "named" => userTable'[email] = "named"]_vars

====
